---- MODULE Spec2Model ----
(***************************************************************************)
(* A model of the README generator (src/src/generateReadmes.ts): main's    *)
(* setup and per-repository loop, processPlugin and the steps it awaits,   *)
(* the template substitution of generateReadmeFromTemplate, the            *)
(* extraction of extractPluginInfo, the method list of                     *)
(* extractDetailedComponentInfo and the persistence of createPullRequest;  *)
(* and of the download statistics (src/src/npmDownloadStats.ts).           *)
(*                                                                         *)
(* Strings are sequences of tokens.  A token is a piece of text that the   *)
(* code treats as a unit: a '/'-separated part of a path or URL, a         *)
(* placeholder of the template, a heading, a single character such as "$". *)
(***************************************************************************)
EXTENDS Integers, Sequences, FiniteSets, TLC

VARIABLES
    \* process arguments, environment and the world outside the process
    LOCAL_MODE, TEST_MODE, TEST_REPO, GITHUB_TOKEN, OPENAI_API_KEY, noAi,
    templateExists, templateFile, cwd, dirs, orgRepos,
    \* main
    pc, exitCode, repositories, pluginsToProcess, idx,
    \* processPlugin and its locals
    ppc, repoNameOrUrl, repoName, repoPath, pluginInfo, existingReadme, readme,
    \* file system and remote state the run changes
    tempRoot, tempDirs, writtenPaths, remoteBranches, pullRequests,
    \* history of the run
    enumerated, started, reports, events, aiCall, aiResponse, lastError, written,
    propagated,
    \* commands and API requests issued, paths handed to fs.remove
    calls, removed,
    \* generateReadmeFromTemplate applied to a drawn PluginInfo
    tInfo, tOut, tDone,
    \* extractPluginInfo applied to a drawn checkout: its position, the PluginInfo
    \* it builds, the Set of names found and the directories being searched
    checkout, xpc, xInfo, envVarSet, stack,
    \* the download statistics: main's position, the registry's answers to the
    \* two searches, and the lists main passes on
    npc, searchResponses, term, packages, packageDownloads, versionDownloads,
    versionIdx, lastAnswers, summary,
    \* the period requests of Promise.all still pending; whether a delay has
    \* elapsed since the last remote call, and whether a remote call was ever
    \* issued without one
    inflight, delayed, undelayedCall,
    \* extractDetailedComponentInfo on a service: the loop over the matches of
    \* methodRegex, its lastIndex and the methods pushed
    mpc, sourceCode, lastIndex, methods

cfgVars  == <<LOCAL_MODE, TEST_MODE, TEST_REPO, GITHUB_TOKEN, OPENAI_API_KEY, noAi,
              templateExists, templateFile, cwd, dirs, orgRepos>>
mainVars == <<pc, exitCode, repositories, pluginsToProcess, idx>>
ppVars   == <<ppc, repoNameOrUrl, repoName, repoPath, pluginInfo, existingReadme, readme>>
worldVars == <<tempRoot, tempDirs, writtenPaths, remoteBranches, pullRequests>>
histVars == <<enumerated, started, reports, events, aiCall, aiResponse, lastError, written,
              propagated>>
effVars  == <<calls, removed>>
tplVars  == <<tInfo, tOut, tDone>>
extractVars == <<checkout, xpc, xInfo, envVarSet, stack>>
npmVars  == <<npc, searchResponses, term, packages, packageDownloads, versionDownloads,
              versionIdx, lastAnswers, summary, inflight, delayed, undelayedCall>>
methodVars == <<mpc, sourceCode, lastIndex, methods>>
otherVars == <<tplVars, extractVars, npmVars, methodVars>>
vars     == <<cfgVars, mainVars, ppVars, worldVars, histVars, effVars, otherVars>>

(***************************************************************************)
(* Bounds of the model.                                                    *)
(***************************************************************************)
MaxRepos == 2       \* repositories in the organization / plugin directories
MaxValLen == 2      \* tokens in a manifest string drawn for the template

(***************************************************************************)
(* Sequences.                                                              *)
(***************************************************************************)
Range(s) == {s[i] : i \in 1..Len(s)}

RECURSIVE SeqsUpTo(_, _)
SeqsUpTo(S, n) ==
    IF n = 0 THEN {<<>>}
    ELSE LET shorter == SeqsUpTo(S, n - 1)
         IN  shorter \cup {Append(s, x) : s \in shorter, x \in S}

NoDup(s) == \A i, j \in 1..Len(s) : i # j => s[i] # s[j]

RECURSIVE Flatten(_)
Flatten(ss) == IF ss = <<>> THEN <<>> ELSE Head(ss) \o Flatten(Tail(ss))

RECURSIVE Join(_, _)
Join(ss, sep) ==
    IF ss = <<>> THEN <<>>
    ELSE IF Len(ss) = 1 THEN ss[1]
    ELSE ss[1] \o sep \o Join(Tail(ss), sep)

Contains(s, sub) ==
    \E i \in 0..(Len(s) - Len(sub)) : SubSeq(s, i + 1, i + Len(sub)) = sub

IsWhitespace(t) == t \in {" ", "\n", "\n\n"}

RECURSIVE TrimStart(_)
TrimStart(s) ==
    IF s # <<>> /\ IsWhitespace(Head(s)) THEN TrimStart(Tail(s)) ELSE s

RECURSIVE TrimEnd(_)
TrimEnd(s) ==
    IF s # <<>> /\ IsWhitespace(s[Len(s)]) THEN TrimEnd(SubSeq(s, 1, Len(s) - 1)) ELSE s

Trim(s) == TrimEnd(TrimStart(s))

(***************************************************************************)
(* Text.  TokLen is the number of characters a token stands for: "BODY" is *)
(* a run of 500 characters of prose, "T" a stretch of the template's own   *)
(* text between two placeholders, a heading its own text.  Lengths are     *)
(* taken of completions only, whose other tokens are single characters.    *)
(***************************************************************************)
H_Future   == "## Future Enhancements"
H_Credits  == "## Credits"
H_Security == "## Security Best Practices"
H_DevGuide == "## Development Guide"

TokLen(t) ==
    CASE t = "BODY" -> 500
      [] t = "T" -> 300
      [] t = H_Future -> 22
      [] t = H_Credits -> 10
      [] t = H_Security -> 26
      [] t = H_DevGuide -> 20
      [] t = "\n\n" -> 2
      [] OTHER -> 1

RECURSIVE StrLen(_)
StrLen(s) == IF s = <<>> THEN 0 ELSE TokLen(Head(s)) + StrLen(Tail(s))

\* String.prototype.toLowerCase on the environment-variable names drawn
ToLowerCase(t) ==
    CASE t = "FOO" -> "foo"
      [] t = "BAR" -> "bar"
      [] OTHER -> t

(***************************************************************************)
(* String.prototype.replace(/ph/g, repl) with a string replacement: every  *)
(* match of the placeholder in s is replaced, the inserted text is not     *)
(* rescanned, and in the replacement "$$" stands for "$" and "$&" for the  *)
(* matched text.  The patterns have no capture group.                      *)
(***************************************************************************)
RECURSIVE GetSubstitution(_, _)
GetSubstitution(repl, matched) ==
    IF repl = <<>> THEN <<>>
    ELSE IF Len(repl) >= 2 /\ repl[1] = "$" /\ repl[2] = "$"
         THEN <<"$">> \o GetSubstitution(SubSeq(repl, 3, Len(repl)), matched)
    ELSE IF Len(repl) >= 2 /\ repl[1] = "$" /\ repl[2] = "&"
         THEN <<matched>> \o GetSubstitution(SubSeq(repl, 3, Len(repl)), matched)
    ELSE <<repl[1]>> \o GetSubstitution(Tail(repl), matched)

ReplaceAll(s, ph, repl) ==
    Flatten([i \in 1..Len(s) |->
                IF s[i] = ph THEN GetSubstitution(repl, ph) ELSE <<s[i]>>])

(***************************************************************************)
(* assets/readme-template.md: its placeholders in the order they occur,    *)
(* with the template's own text between them.                              *)
(***************************************************************************)
ReadmeTemplate ==
    << "T", "{{PLUGIN_NAME}}", "\n\n", "{{PLUGIN_DESCRIPTION}}",
       "T", "{{PACKAGE_NAME}}", "T", "{{PACKAGE_NAME}}",
       "T", "{{ENV_VARS}}",
       "T", "{{ACTIONS_DETAILED}}", "T", "{{SERVICES_DETAILED}}",
       "T", "{{PROVIDERS_DETAILED}}",
       "T", "{{PACKAGE_NAME}}",
       "T", "{{REPOSITORY_URL}}", "\n", "{{PLUGIN_NAME}}",
       "T", "{{REPOSITORY_URL}}", "T", "\n" >>

NoInfo ==
    [packageName |-> <<>>, description |-> <<>>, repository |-> <<>>,
     envVars |-> <<>>, actions |-> <<>>, services |-> <<>>, providers |-> <<>>]

OrDefault(text, default) == IF text # <<>> THEN text ELSE <<default>>

EnvVarsSection(info) ==
    IF Len(info.envVars) > 0
    THEN Join([i \in 1..Len(info.envVars) |->
                 <<info.envVars[i], "=your_", ToLowerCase(info.envVars[i]), "_here">>],
              <<"\n">>)
    ELSE <<"# No environment variables required">>

ComponentList(components, none) ==
    IF Len(components) > 0
    THEN Join([i \in 1..Len(components) |->
                 <<"- **", components[i].name, "**: <!-- TODO: Add description -->">>],
              <<"\n">>)
    ELSE <<none>>

\* The components drawn carry a name and an optional description only: no
\* parameters, return type, aliases, methods, configuration or usage example.
ActionSection(action) ==
    <<"#### ", action.name, "\n\n">>
    \o OrDefault(action.description, "Description of this action")
    \o <<"\n\n", "**Parameters:** This action does not require any parameters.", "\n\n",
         "**Usage:** // Example usage of ", action.name, "\n",
         "await runtime.useAction('", action.name, "', { /* parameters */ });", "\n\n">>

ServiceSection(service) ==
    <<"#### ", service.name, "\n\n">>
    \o OrDefault(service.description, "Description of this service")
    \o <<"\n\n", "**Usage Example:** const service = runtime.getService('",
         service.name, "');", "\n\n">>

ProviderSection(provider) ==
    <<"#### ", provider.name, "\n\n">>
    \o OrDefault(provider.description, "Description of this provider")
    \o <<"\n\n", "**Provided Context:** // Context structure", "\n\n",
         "**Usage:** // The ", provider.name, " provider supplies the following context",
         "\n", "// Context is automatically included in agent prompts", "\n\n",
         "**When This Provider Runs:**", "\n",
         "This provider runs before each agent action to supply relevant context.",
         "\n\n">>

ActionsDetailed(info) ==
    IF Len(info.actions) > 0
    THEN Join([i \in 1..Len(info.actions) |-> ActionSection(info.actions[i])],
              <<"\n---\n\n">>)
    ELSE <<"No actions found in this plugin.">>

ServicesDetailed(info) ==
    IF Len(info.services) > 0
    THEN Join([i \in 1..Len(info.services) |-> ServiceSection(info.services[i])],
              <<"\n---\n\n">>)
    ELSE <<"No services found in this plugin.">>

ProvidersDetailed(info) ==
    IF Len(info.providers) > 0
    THEN Join([i \in 1..Len(info.providers) |-> ProviderSection(info.providers[i])],
              <<"\n---\n\n">>)
    ELSE <<"No providers found in this plugin.">>

generateReadmeFromTemplate(info, template) ==
    LET r1  == ReplaceAll(template, "{{PLUGIN_NAME}}", info.packageName)
        r2  == ReplaceAll(r1, "{{PLUGIN_DESCRIPTION}}", info.description)
        r3  == ReplaceAll(r2, "{{PACKAGE_NAME}}", info.packageName)
        r4  == ReplaceAll(r3, "{{REPOSITORY_URL}}", info.repository)
        r5  == ReplaceAll(r4, "{{ENV_VARS}}", EnvVarsSection(info))
        r6  == ReplaceAll(r5, "{{ACTIONS_LIST}}",
                          ComponentList(info.actions, "- No actions available"))
        r7  == ReplaceAll(r6, "{{SERVICES_LIST}}",
                          ComponentList(info.services, "- No services available"))
        r8  == ReplaceAll(r7, "{{PROVIDERS_LIST}}",
                          ComponentList(info.providers, "- No providers available"))
        r9  == ReplaceAll(r8, "{{ACTIONS_DETAILED}}", ActionsDetailed(info))
        r10 == ReplaceAll(r9, "{{SERVICES_DETAILED}}", ServicesDetailed(info))
    IN  ReplaceAll(r10, "{{PROVIDERS_DETAILED}}", ProvidersDetailed(info))

(***************************************************************************)
(* Paths and repository identifiers.  A path is the sequence of its        *)
(* segments; a repository name or URL is the sequence of its '/'-separated *)
(* parts, so "https://github.com/o/r" is <<"https:", "", "github.com",     *)
(* "o", "r">> and a plain name has one part.                               *)
(***************************************************************************)
GITHUB_ORG  == "elizaos-plugins"
MAIN_BRANCH == "main"
per_page    == 100

PluginNames == {"plugin-a", "plugin-b"}
OrgNames    == PluginNames \cup {"docs"}
CwdNames    == {"plugins-automation", "PluginAutomation", "plugin-plugins-automation"}

\* name.startsWith('plugin-'), on the names drawn
StartsWithPluginDash(name) == name \in PluginNames \cup {"plugin-plugins-automation"}

\* name.endsWith('plugins-automation'), on the names drawn
EndsWithPluginsAutomation(name) ==
    name \in {"plugins-automation", "plugin-plugins-automation"}

\* s.startsWith('http://') || s.startsWith('https://')
IsUrl(parts) ==
    Len(parts) >= 3 /\ parts[1] \in {"http:", "https:"} /\ parts[2] = ""

\* lastPart.replace('.git', ''), on the parts drawn
ReplaceDotGit(part) ==
    CASE part = "plugin-b.git" -> "plugin-b"
      [] OTHER -> part

RECURSIVE Normalize(_, _)
Normalize(done, rest) ==
    IF rest = <<>> THEN done
    ELSE IF Head(rest) = ".."
         THEN Normalize(IF done = <<>> THEN <<>> ELSE SubSeq(done, 1, Len(done) - 1),
                        Tail(rest))
    ELSE IF Head(rest) \in {".", ""} THEN Normalize(done, Tail(rest))
    ELSE Normalize(Append(done, Head(rest)), Tail(rest))

\* path.join on absolute paths
PathJoin(base, segments) == Normalize(<<>>, base \o segments)

\* fault: the safety check never recognises the automation README
IncludesAutomationReadme_Never(path) == FALSE

\* readmePath.includes('plugins-automation/README.md')
IncludesAutomationReadme(path) ==
    \E i \in 1..(Len(path) - 1) :
        EndsWithPluginsAutomation(path[i]) /\ path[i + 1] = "README.md"

TempDir(name) == PathJoin(cwd, <<"temp", name>>)

(***************************************************************************)
(* The inputs drawn.                                                       *)
(***************************************************************************)
UrlOfPluginB  == <<"https:", "", "github.com", GITHUB_ORG, "plugin-b.git">>
UrlWithSlash  == <<"https:", "", "github.com", GITHUB_ORG, "plugin-b", "">>
TestRepos     == {<<"plugin-a">>, UrlOfPluginB, UrlWithSlash}

Component(name, description) == [name |-> name, description |-> description]

\* what assets/readme-template.md can hold: the shipped template, or a file of
\* nothing but a line break (main checks only that the file exists)
BlankTemplate == <<"\n">>

Templates == {ReadmeTemplate, BlankTemplate}

ExtractedInfos ==
    { [packageName |-> <<"@elizaos/", "plugin-a">>, description |-> <<"x">>,
       repository |-> <<"https://github.com/elizaos-plugins/plugin-a">>,
       envVars |-> <<"BAR", "FOO">>,
       actions |-> <<Component("transferAction", <<>>)>>,
       services |-> <<>>, providers |-> <<>>],
      [packageName |-> <<"@elizaos/", "plugin-b">>, description |-> <<>>,
       repository |-> <<>>, envVars |-> <<>>, actions |-> <<>>,
       services |-> <<Component("WalletService", <<"x">>)>>,
       providers |-> <<Component("walletProvider", <<>>)>>] }

ExistingReadmes ==
    { <<>>,
      <<"BODY", H_Credits, "x">>,
      <<"BODY", "BODY", H_Credits>>,
      <<"x", H_Future, "x", H_Security, "x">> }

AIResponses ==
    { <<>>,
      <<"x", H_Credits>>,
      <<" ", "BODY", "\n">>,
      <<"BODY", H_Future, "x", H_Credits, "x", H_Security, "x">> }

Orderings(S) ==
    {s \in SeqsUpTo(S, Cardinality(S)) : Len(s) = Cardinality(S) /\ NoDup(s)}

\* a full page of repositories that are not plugins: repo-1 .. repo-100
FullPage == [i \in 1..per_page |-> "repo-" \o ToString(i)]

\* organizations with more repositories than one page of the listing holds
LargeOrgs ==
    { FullPage \o <<"plugin-a">>,
      <<"plugin-b">> \o FullPage \o <<"plugin-a">> }

(***************************************************************************)
(* The state after the module is loaded: the flags are read from the       *)
(* command line and the environment, nothing has run.                      *)
(***************************************************************************)
PipelineStart ==
    /\ pc = "start" /\ exitCode = -1
    /\ repositories = <<>> /\ pluginsToProcess = <<>> /\ idx = 1
    /\ ppc = "idle" /\ repoNameOrUrl = <<>> /\ repoName = "" /\ repoPath = <<>>
    /\ pluginInfo = NoInfo /\ existingReadme = <<>> /\ readme = <<>>
    /\ tempRoot = FALSE /\ tempDirs = {} /\ writtenPaths = {}
    /\ remoteBranches = {} /\ pullRequests = {}
    /\ enumerated = FALSE /\ started = <<>> /\ reports = <<>> /\ events = <<>>
    /\ aiCall = "none" /\ aiResponse = <<>> /\ lastError = "" /\ written = <<>> /\ propagated = FALSE
    /\ calls = {} /\ removed = {}

TemplateIdle == tInfo = NoInfo /\ tOut = <<>> /\ tDone = TRUE

NoDir == [exists |-> FALSE, exports |-> <<>>]

NothingExtracted ==
    [packageName |-> <<>>, actions |-> <<>>, services |-> <<>>, providers |-> <<>>,
     envVars |-> <<>>]

ExtractIdle ==
    /\ checkout = [name |-> <<>>, index |-> <<>>, actionsDir |-> NoDir,
                   servicesDir |-> NoDir, providersDir |-> NoDir, tree |-> {}]
    /\ xpc = "done" /\ xInfo = NothingExtracted /\ envVarSet = <<>> /\ stack = <<>>

NoSummary ==
    [totalPackages |-> 0, totalDownloads |-> 0, totalMonthlyDownloads |-> 0,
     totalWeeklyDownloads |-> 0, averageIsNumber |-> FALSE, average |-> 0,
     topPackage |-> "N/A"]

NoAnswers == <<>>

\* no service source is being scanned
MethodsIdle == mpc = "done" /\ sourceCode = <<>> /\ lastIndex = 1 /\ methods = <<>>

\* no run of the download statistics
NpmIdle ==
    /\ npc = "done" /\ term = 1 /\ searchResponses = <<>>
    /\ packages = <<>> /\ packageDownloads = <<>> /\ versionDownloads = <<>>
    /\ versionIdx = 1 /\ lastAnswers = NoAnswers /\ summary = NoSummary
    /\ inflight = {} /\ delayed = TRUE /\ undelayedCall = FALSE

Flags ==
    /\ TEST_MODE \in BOOLEAN
    /\ TEST_REPO \in (IF TEST_MODE THEN TestRepos \cup {<<>>} ELSE {<<>>})
    /\ OPENAI_API_KEY \in BOOLEAN
    /\ noAi \in (IF OPENAI_API_KEY THEN BOOLEAN ELSE {FALSE})
    /\ templateExists \in BOOLEAN
    /\ templateFile \in (IF templateExists THEN Templates ELSE {<<>>})

\* --local: the plugins are the directories next to the working directory
LocalWorld ==
    /\ LOCAL_MODE = TRUE
    /\ GITHUB_TOKEN = FALSE
    /\ orgRepos = <<>>
    /\ \E base \in CwdNames, siblings \in SUBSET PluginNames, nested \in BOOLEAN :
          /\ Cardinality(siblings) <= MaxRepos
          /\ cwd = <<"w", base>>
          /\ dirs = {<<"w">>, <<"w", base>>}
                    \cup {<<"w", n>> : n \in siblings}
                    \cup (IF nested THEN {<<"w", base, "plugin-a">>} ELSE {})

\* remote: the plugins are the organization's repositories
RemoteWorld ==
    /\ LOCAL_MODE = FALSE
    /\ GITHUB_TOKEN \in BOOLEAN
    /\ cwd = <<"w", "plugins-automation">>
    /\ dirs = {<<"w">>, cwd}
    /\ orgRepos \in {s \in SeqsUpTo(OrgNames, MaxRepos) : NoDup(s)} \cup LargeOrgs

Init ==
    /\ Flags
    /\ (LocalWorld \/ RemoteWorld)
    /\ PipelineStart
    /\ TemplateIdle /\ ExtractIdle /\ NpmIdle /\ MethodsIdle

(***************************************************************************)
(* README generation.  An awaited call either returns a value or throws.   *)
(***************************************************************************)
Returned(v) == [threw |-> FALSE, value |-> v]
Thrown      == [threw |-> TRUE, value |-> <<>>]

Completions == {Thrown} \cup {Returned(r) : r \in AIResponses}

MinAiLength == 500

\* generateReadmeFromTemplate tabulated once, for the PluginInfos the extraction
\* can yield and the templates the file can hold
FilledTemplates ==
    {<<info, t, generateReadmeFromTemplate(info, t)>> : info \in ExtractedInfos, t \in Templates}

\* generateReadmeFromTemplate as an awaited call: fs.readFile(templatePath)
\* throws, or the template read is filled in
FromTemplate(info, readable) ==
    IF readable
    THEN Returned((CHOOSE p \in FilledTemplates : p[1] = info /\ p[2] = templateFile)[3])
    ELSE Thrown

\* fault: a completion shorter than 80% of the existing README is rejected
generateReadmeWithAI_RejectsShorter(info, existing, fromTemplate, completion) ==
    IF fromTemplate.threw THEN fromTemplate
    ELSE IF completion.threw THEN fromTemplate
    ELSE IF completion.value = <<>> \/ StrLen(Trim(completion.value)) < MinAiLength
         THEN fromTemplate
    ELSE IF 10 * StrLen(Trim(completion.value)) < 8 * StrLen(Trim(existing))
         THEN fromTemplate
    ELSE Returned(Trim(completion.value))

\* fromTemplate: what generateReadmeFromTemplate does for this plugin when it is
\* called; completion: what openai.chat.completions.create does when it is called.
\* The template is read before the completion is asked for, and a failure of
\* either ends in the catch block, which calls generateReadmeFromTemplate.
generateReadmeWithAI(info, existing, fromTemplate, completion) ==
    IF fromTemplate.threw THEN fromTemplate
    ELSE IF completion.threw THEN fromTemplate
    ELSE IF completion.value = <<>> \/ StrLen(Trim(completion.value)) < MinAiLength
         THEN fromTemplate
    ELSE Returned(Trim(completion.value))

\* fault: the completion is asked for whether or not the API key is set
UseAI_WithoutKey == ~noAi

UseAI == OPENAI_API_KEY /\ ~noAi

\* fault: a failed completion is rethrown instead of falling back to the template
generateReadme_Rethrows(info, existing, fromTemplate, completion) ==
    LET ai == generateReadmeWithAI(info, existing, fromTemplate, completion)
    IN  IF UseAI /\ ~fromTemplate.threw /\ completion.threw THEN Thrown
        ELSE IF UseAI /\ ~ai.threw THEN ai
        ELSE fromTemplate

generateReadme(info, existing, fromTemplate, completion) ==
    LET ai == generateReadmeWithAI(info, existing, fromTemplate, completion)
    IN  IF UseAI /\ ~ai.threw THEN ai
        ELSE fromTemplate

(***************************************************************************)
(* processPlugin: helpers shared by its steps.                             *)
(***************************************************************************)
Event(step, ok) == [step |-> step, ok |-> ok]

\* the repository name processPlugin derives from its argument
RepoNameOf(parts) ==
    IF IsUrl(parts) THEN ReplaceDotGit(parts[Len(parts)]) ELSE parts[1]

\* an exception inside the try block: control goes to the catch block
Throw(step, error) ==
    /\ ppc' = "catch"
    /\ lastError' = error
    /\ events' = Append(events, Event(step, FALSE))

\* a step of the try block that succeeded
Proceed(step, next) ==
    /\ ppc' = next
    /\ lastError' = lastError
    /\ events' = Append(events, Event(step, TRUE))

\* processPlugin returns to main's loop
Return(status) ==
    /\ ppc' = "idle"
    /\ idx' = idx + 1
    /\ reports' = Append(reports, status)
    /\ repoNameOrUrl' = <<>> /\ repoName' = "" /\ repoPath' = <<>>
    /\ pluginInfo' = NoInfo /\ existingReadme' = <<>> /\ readme' = <<>>

Exit(code) == pc' = "exited" /\ exitCode' = code

(***************************************************************************)
(* main                                                                    *)
(***************************************************************************)
CheckToken ==
    /\ pc = "start"
    /\ IF ~LOCAL_MODE /\ ~GITHUB_TOKEN THEN Exit(1)
       ELSE pc' = "ensureDir" /\ exitCode' = exitCode
    /\ UNCHANGED <<cfgVars, repositories, pluginsToProcess, idx, ppVars, worldVars,
                   histVars, effVars, otherVars>>

EnsureTempDir ==
    /\ pc = "ensureDir"
    /\ tempRoot' = TRUE
    /\ pc' = "checkTemplate"
    /\ UNCHANGED <<cfgVars, exitCode, repositories, pluginsToProcess, idx, ppVars,
                   tempDirs, writtenPaths, remoteBranches, pullRequests, histVars,
                   effVars, otherVars>>

\* fault: a missing template is reported but the run goes on
CheckTemplate_GoesOn ==
    /\ pc = "checkTemplate"
    /\ pc' = "enumerate" /\ exitCode' = exitCode
    /\ UNCHANGED <<cfgVars, repositories, pluginsToProcess, idx, ppVars, worldVars,
                   histVars, effVars, otherVars>>

CheckTemplate ==
    /\ pc = "checkTemplate"
    /\ IF ~templateExists THEN Exit(1)
       ELSE pc' = "enumerate" /\ exitCode' = exitCode
    /\ UNCHANGED <<cfgVars, repositories, pluginsToProcess, idx, ppVars, worldVars,
                   histVars, effVars, otherVars>>

\* getLocalPlugins: the directories next to cwd whose name starts with 'plugin-'
\* (readdir decides their order)
getLocalPlugins ==
    LET rootDir == PathJoin(cwd, <<"..">>)
        items   == {d[Len(d)] : d \in {e \in dirs : Len(e) = Len(rootDir) + 1
                                         /\ SubSeq(e, 1, Len(rootDir)) = rootDir}}
    IN  {item \in items : StartsWithPluginDash(item)}

\* octokit.repos.listForOrg: one page of the organization, filtered by prefix
listPluginRepos ==
    LET page == SubSeq(orgRepos, 1, IF Len(orgRepos) < per_page THEN Len(orgRepos)
                                    ELSE per_page)
    IN  SelectSeq(page, StartsWithPluginDash)

GetPluginRepositories ==
    /\ pc = "enumerate"
    /\ enumerated' = TRUE
    /\ IF LOCAL_MODE
       THEN \E order \in Orderings(getLocalPlugins) :
              /\ repositories' = [i \in 1..Len(order) |-> <<order[i]>>]
              /\ pc' = "select" /\ exitCode' = exitCode
              /\ calls' = calls
       ELSE IF TEST_MODE /\ TEST_REPO # <<>>
       THEN /\ repositories' = <<TEST_REPO>>
            /\ pc' = "select" /\ exitCode' = exitCode
            /\ calls' = calls
       ELSE \E listed \in BOOLEAN :
              /\ calls' = calls \cup {"repos.listForOrg"}
              /\ IF listed
                 THEN /\ repositories' = [i \in 1..Len(listPluginRepos) |->
                                             <<listPluginRepos[i]>>]
                      /\ pc' = "select" /\ exitCode' = exitCode
                 ELSE /\ repositories' = repositories
                      /\ Exit(1)
    /\ UNCHANGED <<cfgVars, pluginsToProcess, idx, ppVars, worldVars, started, reports,
                   events, aiCall, aiResponse, lastError, written, propagated, removed,
                   otherVars>>

\* fault: --test is ignored and every repository of the list is processed
SelectPlugins_IgnoresTest ==
    /\ pc = "select"
    /\ pluginsToProcess' = repositories
    /\ pc' = "loop" /\ exitCode' = exitCode
    /\ UNCHANGED <<cfgVars, repositories, idx, ppVars, worldVars, histVars, effVars,
                   otherVars>>

SelectPlugins ==
    /\ pc = "select"
    /\ LET chosen == IF ~TEST_MODE THEN repositories
                     ELSE IF TEST_REPO # <<>>
                          THEN SelectSeq(repositories, LAMBDA r : r = TEST_REPO)
                     ELSE SubSeq(repositories, 1,
                                 IF Len(repositories) < 1 THEN Len(repositories) ELSE 1)
       IN  /\ pluginsToProcess' = chosen
           /\ IF TEST_MODE /\ TEST_REPO # <<>> /\ Len(chosen) = 0 THEN Exit(1)
              ELSE pc' = "loop" /\ exitCode' = exitCode
    /\ UNCHANGED <<cfgVars, repositories, idx, ppVars, worldVars, histVars, effVars,
                   otherVars>>

\* the loop calls processPlugin(repo); the name is derived before the try block
StartProcessPlugin ==
    /\ pc = "loop" /\ ppc = "idle" /\ idx <= Len(pluginsToProcess)
    /\ LET repo == pluginsToProcess[idx]
       IN  /\ started' = Append(started, repo)
           /\ events' = <<>> /\ aiCall' = "none" /\ aiResponse' = <<>>
           /\ written' = <<>>
           /\ IF IsUrl(repo) /\ repo[Len(repo)] = ""
              THEN /\ propagated' = TRUE
                   /\ lastError' = "Invalid URL format"
                   /\ Exit(1)
                   /\ UNCHANGED <<ppVars>>
              ELSE /\ propagated' = propagated
                   /\ lastError' = ""
                   /\ repoNameOrUrl' = repo
                   /\ repoName' = RepoNameOf(repo)
                   /\ ppc' = "getPath"
                   /\ UNCHANGED <<pc, exitCode, repoPath, pluginInfo, existingReadme,
                                  readme>>
    /\ UNCHANGED <<cfgVars, repositories, pluginsToProcess, idx, worldVars, enumerated,
                   reports, effVars, otherVars>>

\* after the loop: the temp directory is removed and main returns
FinishMain ==
    /\ pc = "loop" /\ ppc = "idle" /\ idx > Len(pluginsToProcess)
    /\ tempRoot' = FALSE /\ tempDirs' = {}
    /\ removed' = removed \cup {PathJoin(cwd, <<"temp">>)}
    /\ Exit(0)
    /\ UNCHANGED <<cfgVars, repositories, pluginsToProcess, idx, ppVars, writtenPaths,
                   remoteBranches, pullRequests, histVars, calls, otherVars>>

(***************************************************************************)
(* processPlugin, one action per awaited step of its try block.            *)
(***************************************************************************)
ppFrame == UNCHANGED <<cfgVars, mainVars, enumerated, started, reports, aiCall, aiResponse,
                       propagated, otherVars>>

\* getPluginPath with --local: the checkout next to cwd, which must exist
GetPluginPathLocal ==
    /\ pc = "loop" /\ ppc = "getPath" /\ LOCAL_MODE
    /\ LET localPath == PathJoin(cwd, <<"..", repoName>>)
       IN  IF localPath \in dirs
           THEN repoPath' = localPath /\ Proceed("resolve", "extract")
           ELSE repoPath' = repoPath /\ Throw("resolve", "Local plugin not found")
    /\ UNCHANGED <<repoNameOrUrl, repoName, pluginInfo, existingReadme, readme, idx,
                   worldVars, written, effVars>>
    /\ ppFrame

\* cloneRepository: temp/<repoName> is removed, then git clone runs.  A clone that
\* fails may leave the directory behind (git keeps it when the checkout fails).
cloneRepository ==
    /\ pc = "loop" /\ ppc = "getPath" /\ ~LOCAL_MODE
    /\ removed' = removed \cup {TempDir(repoName)}
    /\ calls' = calls \cup {"git clone"}
    /\ \E cloned \in BOOLEAN, leftBehind \in BOOLEAN :
          IF cloned
          THEN /\ tempDirs' = tempDirs \cup {repoName}
               /\ repoPath' = TempDir(repoName)
               /\ Proceed("clone", "extract")
          ELSE /\ tempDirs' = IF leftBehind THEN tempDirs \cup {repoName}
                              ELSE tempDirs \ {repoName}
               /\ repoPath' = repoPath
               /\ Throw("clone", "git clone failed")
    /\ UNCHANGED <<repoNameOrUrl, repoName, pluginInfo, existingReadme, readme, idx,
                   tempRoot, writtenPaths, remoteBranches, pullRequests, written>>
    /\ ppFrame

\* extractPluginInfo: the manifest and the sources yield a PluginInfo, or reading
\* them throws
extractPluginInfo ==
    /\ pc = "loop" /\ ppc = "extract"
    /\ \E extracted \in BOOLEAN, info \in ExtractedInfos :
          IF extracted
          THEN pluginInfo' = info /\ Proceed("extract", "readExisting")
          ELSE pluginInfo' = pluginInfo /\ Throw("extract", "extraction failed")
    /\ UNCHANGED <<repoNameOrUrl, repoName, repoPath, existingReadme, readme, idx,
                   worldVars, written, effVars>>
    /\ ppFrame

\* the README of the checkout, '' when there is none
ReadExistingReadme ==
    /\ pc = "loop" /\ ppc = "readExisting"
    /\ \E text \in ExistingReadmes : existingReadme' = text
    /\ ppc' = "generate"
    /\ UNCHANGED <<repoNameOrUrl, repoName, repoPath, pluginInfo, readme, idx, worldVars,
                   events, lastError, written, effVars>>
    /\ ppFrame

\* fault: an empty README passes
ReadmeIsEmpty_Never(text) == FALSE

\* !readme || readme.trim().length === 0
ReadmeIsEmpty(text) == text = <<>> \/ Len(Trim(text)) = 0

\* generateReadme, then the check that the README is not empty
GenerateReadme ==
    /\ pc = "loop" /\ ppc = "generate"
    /\ \E readable \in BOOLEAN, completion \in Completions :
          LET fromTemplate == FromTemplate(pluginInfo, readable)
              result == generateReadme(pluginInfo, existingReadme, fromTemplate, completion)
          IN  /\ aiCall' = IF UseAI /\ readable
                           THEN (IF completion.threw THEN "threw" ELSE "returned")
                           ELSE "none"
              /\ aiResponse' = IF UseAI /\ readable /\ ~completion.threw
                               THEN completion.value ELSE <<>>
              /\ calls' = IF UseAI /\ readable
                          THEN calls \cup {"chat.completions.create"} ELSE calls
              /\ IF result.threw
                 THEN readme' = readme /\ Throw("generate", "generation failed")
                 ELSE IF ReadmeIsEmpty(result.value)
                 THEN readme' = result.value
                      /\ Throw("generate", "Generated README is empty")
                 ELSE readme' = result.value
                      /\ Proceed("generate", IF LOCAL_MODE THEN "writeLocal" ELSE "checkout")
    /\ UNCHANGED <<cfgVars, mainVars, enumerated, started, reports, propagated, otherVars>>
    /\ UNCHANGED <<repoNameOrUrl, repoName, repoPath, pluginInfo, existingReadme, idx,
                   worldVars, written, removed>>

\* createPullRequest with --local: the README is written into the plugin directory
createPullRequestLocal ==
    /\ pc = "loop" /\ ppc = "writeLocal"
    /\ LET currentDir == cwd
           isInPluginsAutomation == EndsWithPluginsAutomation(currentDir[Len(currentDir)])
           pluginPath == IF isInPluginsAutomation
                         THEN PathJoin(currentDir, <<"..", repoName>>)
                         ELSE PathJoin(currentDir, <<repoName>>)
           readmePath == PathJoin(pluginPath, <<"README.md">>)
       IN  IF pluginPath \notin dirs
           THEN /\ Throw("writeLocal", "Plugin directory not found")
                /\ UNCHANGED <<writtenPaths, written>>
           ELSE IF IncludesAutomationReadme(readmePath)
           THEN /\ Throw("writeLocal", "CRITICAL: Attempted to overwrite plugins-automation README!")
                /\ UNCHANGED <<writtenPaths, written>>
           ELSE \E wrote \in BOOLEAN :
                  IF wrote
                  THEN /\ writtenPaths' = writtenPaths \cup {readmePath}
                       /\ written' = readme
                       /\ Proceed("writeLocal", "cleanup")
                  ELSE /\ Throw("writeLocal", "write failed")
                       /\ UNCHANGED <<writtenPaths, written>>
    /\ UNCHANGED <<repoNameOrUrl, repoName, repoPath, pluginInfo, existingReadme, readme,
                   idx, tempRoot, tempDirs, remoteBranches, pullRequests, effVars>>
    /\ ppFrame

\* a step of the remote createPullRequest: it succeeds and the next one follows,
\* or it throws; createPullRequest rethrows into processPlugin's catch block.
\* octokit is not null here: main has exited when GITHUB_TOKEN is missing.
RemoteStep(at) ==
    /\ pc = "loop" /\ ppc = at /\ ~LOCAL_MODE
    /\ UNCHANGED <<repoNameOrUrl, repoName, repoPath, pluginInfo, existingReadme, readme,
                   idx, tempRoot, tempDirs, writtenPaths, removed>>
    /\ ppFrame

GitCheckoutBranch ==
    /\ RemoteStep("checkout")
    /\ calls' = calls \cup {"git checkout"}
    /\ \E ok \in BOOLEAN :
          IF ok THEN Proceed("checkout", "write")
          ELSE Throw("checkout", "git checkout failed")
    /\ UNCHANGED <<remoteBranches, pullRequests, written>>

WriteReadme ==
    /\ RemoteStep("write")
    /\ calls' = calls
    /\ \E ok \in BOOLEAN :
          IF ok THEN written' = readme /\ Proceed("write", "add")
          ELSE written' = written /\ Throw("write", "write failed")
    /\ UNCHANGED <<remoteBranches, pullRequests>>

GitAdd ==
    /\ RemoteStep("add")
    /\ calls' = calls \cup {"git add"}
    /\ \E ok \in BOOLEAN :
          IF ok THEN Proceed("add", "commit")
          ELSE Throw("add", "git add failed")
    /\ UNCHANGED <<remoteBranches, pullRequests, written>>

\* fault: a failed commit is swallowed and the push follows
GitCommit_SwallowsFailure ==
    /\ RemoteStep("commit")
    /\ calls' = calls \cup {"git commit"}
    /\ \E ok \in BOOLEAN :
          /\ ppc' = "push"
          /\ lastError' = lastError
          /\ events' = Append(events, Event("commit", ok))
    /\ UNCHANGED <<remoteBranches, pullRequests, written>>

GitCommit ==
    /\ RemoteStep("commit")
    /\ calls' = calls \cup {"git commit"}
    /\ \E ok \in BOOLEAN :
          IF ok THEN Proceed("commit", "push")
          ELSE Throw("commit", "git commit failed")
    /\ UNCHANGED <<remoteBranches, pullRequests, written>>

GitPush ==
    /\ RemoteStep("push")
    /\ calls' = calls \cup {"git push"}
    /\ \E ok \in BOOLEAN :
          IF ok THEN remoteBranches' = remoteBranches \cup {repoName}
                     /\ Proceed("push", "pr")
          ELSE remoteBranches' = remoteBranches /\ Throw("push", "git push failed")
    /\ UNCHANGED <<pullRequests, written>>

PullsCreate ==
    /\ RemoteStep("pr")
    /\ calls' = calls \cup {"pulls.create"}
    /\ \E ok \in BOOLEAN :
          IF ok THEN pullRequests' = pullRequests
                                     \cup {[repo |-> repoName, base |-> MAIN_BRANCH]}
                     /\ Proceed("pr", "cleanup")
          ELSE pullRequests' = pullRequests /\ Throw("pr", "pull request failed")
    /\ UNCHANGED <<remoteBranches, written>>

\* after createPullRequest returned: the clone is removed, success is logged
CleanupAndReturn ==
    /\ pc = "loop" /\ ppc = "cleanup"
    /\ tempDirs' = IF ~LOCAL_MODE /\ repoPath # <<>> THEN tempDirs \ {repoName}
                   ELSE tempDirs
    /\ removed' = IF ~LOCAL_MODE /\ repoPath # <<>> THEN removed \cup {repoPath}
                  ELSE removed
    /\ Return("succeeded")
    /\ UNCHANGED <<cfgVars, pc, exitCode, repositories, pluginsToProcess, tempRoot,
                   writtenPaths, remoteBranches, pullRequests, enumerated, started, events,
                   aiCall, aiResponse, lastError, written, propagated, calls, otherVars>>

\* fault: the catch block deletes the branch it pushed
CatchBlock_DeletesBranch ==
    /\ pc = "loop" /\ ppc = "catch"
    /\ tempDirs' = IF ~LOCAL_MODE /\ repoPath # <<>> THEN tempDirs \ {repoName}
                   ELSE tempDirs
    /\ removed' = IF ~LOCAL_MODE /\ repoPath # <<>> THEN removed \cup {repoPath}
                  ELSE removed
    /\ remoteBranches' = remoteBranches \ {repoName}
    /\ Return("failed")
    /\ UNCHANGED <<cfgVars, pc, exitCode, repositories, pluginsToProcess, tempRoot,
                   writtenPaths, pullRequests, enumerated, started, events,
                   aiCall, aiResponse, lastError, written, propagated, calls, otherVars>>

\* the catch block: the failure is logged, the clone is removed if repoPath is set
CatchBlock ==
    /\ pc = "loop" /\ ppc = "catch"
    /\ tempDirs' = IF ~LOCAL_MODE /\ repoPath # <<>> THEN tempDirs \ {repoName}
                   ELSE tempDirs
    /\ removed' = IF ~LOCAL_MODE /\ repoPath # <<>> THEN removed \cup {repoPath}
                  ELSE removed
    /\ Return("failed")
    /\ UNCHANGED <<cfgVars, pc, exitCode, repositories, pluginsToProcess, tempRoot,
                   writtenPaths, remoteBranches, pullRequests, enumerated, started, events,
                   aiCall, aiResponse, lastError, written, propagated, calls, otherVars>>

Next ==
    \/ CheckToken \/ EnsureTempDir \/ CheckTemplate \/ GetPluginRepositories
    \/ SelectPlugins \/ StartProcessPlugin \/ FinishMain
    \/ GetPluginPathLocal \/ cloneRepository \/ extractPluginInfo \/ ReadExistingReadme
    \/ GenerateReadme \/ createPullRequestLocal
    \/ GitCheckoutBranch \/ WriteReadme \/ GitAdd \/ GitCommit \/ GitPush \/ PullsCreate
    \/ CleanupAndReturn \/ CatchBlock

Spec == Init /\ [][Next]_vars

(***************************************************************************)
(* generateReadmeFromTemplate on its own: a PluginInfo is drawn, the       *)
(* shipped template is filled in.                                          *)
(***************************************************************************)
ValueTokens == {"x", "$", "&", "{{ENV_VARS}}"}

Values == SeqsUpTo(ValueTokens, MaxValLen) \ {<<>>}

TemplateInfos ==
    { [packageName |-> n, description |-> d, repository |-> r,
       envVars |-> e, actions |-> c.actions, services |-> c.services,
       providers |-> c.providers] :
         n \in Values, d \in Values, r \in Values,
         e \in {<<>>, <<"BAR", "FOO">>},
         c \in { [actions |-> <<>>, services |-> <<>>, providers |-> <<>>],
                 [actions |-> <<Component("transferAction", <<"x">>)>>,
                  services |-> <<Component("WalletService", <<>>)>>,
                  providers |-> <<Component("walletProvider", <<>>)>>] } }

\* no run of main: the flags are set, nothing is in progress
PipelineIdle ==
    /\ LOCAL_MODE = TRUE /\ TEST_MODE = FALSE /\ TEST_REPO = <<>>
    /\ GITHUB_TOKEN = FALSE /\ OPENAI_API_KEY = FALSE /\ noAi = FALSE
    /\ templateExists = TRUE /\ templateFile = ReadmeTemplate
    /\ cwd = <<"w", "plugins-automation">> /\ dirs = {<<"w">>, cwd} /\ orgRepos = <<>>
    /\ PipelineStart

TemplateInit ==
    /\ PipelineIdle /\ ExtractIdle /\ NpmIdle /\ MethodsIdle
    /\ tInfo \in TemplateInfos
    /\ tOut = <<>>
    /\ tDone = FALSE

ApplyTemplate ==
    /\ ~tDone
    /\ tOut' = generateReadmeFromTemplate(tInfo, ReadmeTemplate)
    /\ tDone' = TRUE
    /\ UNCHANGED <<tInfo, cfgVars, mainVars, ppVars, worldVars, histVars, effVars,
                   extractVars, npmVars, methodVars>>

TemplateNext == ApplyTemplate

SpecTemplate == TemplateInit /\ [][TemplateNext]_vars

(***************************************************************************)
(* extractPluginInfo on its own: a checkout is drawn, package.json is      *)
(* read, the components are taken from the index file (or the component    *)
(* directory), the sources are searched for environment variables.         *)
(*                                                                         *)
(* The index file is drawn as what the regular expressions of              *)
(* extractPluginComponents see of it: the specifiers between the braces of *)
(* its import from './actions' (the text between two commas, a sequence of *)
(* identifiers, "as" and blanks) and the words inside its actions array    *)
(* literal.  The arrays drawn hold references only, no inline object and   *)
(* no comment.  A component carries its name only, as the text the code    *)
(* took it from.                                                           *)
(***************************************************************************)
Identifiers == {"transferAction", "sendToken", "swapAction", "t"}

\* the number of characters of an identifier drawn
WordLength(id) ==
    CASE id = "transferAction" -> 14
      [] id = "sendToken" -> 9
      [] id = "swapAction" -> 10
      [] id = "t" -> 1
      [] OTHER -> 2

\* /\b[a-zA-Z_]\w+\b/g: a letter or underscore followed by one word character
\* or more
IsWordRef(id) == WordLength(id) >= 2

keywords ==
    {"const", "let", "var", "function", "class", "import", "export", "new", "return",
     "if", "else", "for", "while", "do", "break", "continue"}

\* the first position at which sep occurs in s, 0 when it does not
IndexOf(s, sep) ==
    LET hits == {i \in 1..(Len(s) - Len(sep) + 1) : SubSeq(s, i, i + Len(sep) - 1) = sep}
    IN  IF hits = {} THEN 0 ELSE CHOOSE i \in hits : \A j \in hits : i <= j

\* String.prototype.split(sep)
RECURSIVE Split(_, _)
Split(s, sep) ==
    LET i == IndexOf(s, sep)
    IN  IF i = 0 THEN <<s>>
        ELSE <<SubSeq(s, 1, i - 1)>> \o Split(SubSeq(s, i + Len(sep), Len(s)), sep)

\* the Map filled from the named imports: alias -> original, a later entry for
\* the same alias replacing the earlier one
RECURSIVE ImportMap(_)
ImportMap(specifiers) ==
    IF specifiers = <<>> THEN <<>>
    ELSE LET imp      == Trim(Head(specifiers))
             parts    == Split(imp, <<" ", "as", " ">>)
             alias    == parts[Len(parts)]
             original == IF parts[1] # <<>> THEN parts[1] ELSE alias
             rest     == ImportMap(Tail(specifiers))
         IN  IF alias # <<>> /\ original # <<>>
             THEN IF \E k \in 1..Len(rest) : rest[k].alias = alias
                  THEN rest
                  ELSE <<[alias |-> alias, original |-> original]>> \o rest
             ELSE rest

\* Map.get: undefined is <<>>
MapGet(map, ref) ==
    IF \E k \in 1..Len(map) : map[k].alias = <<ref>>
    THEN (CHOOSE e \in Range(map) : e.alias = <<ref>>).original
    ELSE <<>>

\* the loop over allRefs: a reference is skipped when it is a keyword or when
\* foundNames has it; the name recorded is the import's original name
RECURSIVE ReferencedComponents(_, _, _)
ReferencedComponents(refs, imports, foundNames) ==
    IF refs = <<>> THEN <<>>
    ELSE LET ref == Head(refs)
         IN  IF ref \notin keywords /\ <<ref>> \notin foundNames
             THEN LET importName    == MapGet(imports, ref)
                      componentName == IF importName # <<>> THEN importName ELSE <<ref>>
                  IN  <<[name |-> componentName]>>
                      \o ReferencedComponents(Tail(refs), imports,
                                              foundNames \cup {componentName})
             ELSE ReferencedComponents(Tail(refs), imports, foundNames)

\* the components of the actions (or providers) array of the index file
ComponentsOfIndex(specifiers, arrayWords) ==
    ReferencedComponents(SelectSeq(arrayWords, IsWordRef), ImportMap(specifiers), {})

\* /\w+Service\b/g, on the words drawn
IsServiceName(word) == word \in {"WalletService"}

ServicesOfIndex(arrayWords) ==
    LET serviceNames == SelectSeq(arrayWords, IsServiceName)
    IN  [i \in 1..Len(serviceNames) |-> [name |-> <<serviceNames[i]>>]]

\* fault: the directory of the category is not looked at
ComponentsOfDirectory_Ignored(dir) == <<>>

\* the exports found in the files of src/<type>, used when the index gave nothing
ComponentsOfDirectory(dir) ==
    IF dir.exists THEN [i \in 1..Len(dir.exports) |-> [name |-> <<dir.exports[i]>>]]
    ELSE <<>>

\* the list of one category after extractPluginComponents
ComponentsOrDirectory(fromIndex, dir) ==
    IF fromIndex # <<>> THEN fromIndex ELSE ComponentsOfDirectory(dir)

\* name.replace('@elizaos-plugins/', '@elizaos/'): the first occurrence only
ReplaceFirst(s, tok, repl) ==
    LET i == IndexOf(s, <<tok>>)
    IN  IF i = 0 THEN s
        ELSE SubSeq(s, 1, i - 1) \o repl \o SubSeq(s, i + 1, Len(s))

\* fault: the new scope is put in front of the name
NormalizePackageName_Prepends(name) == <<"@elizaos/">> \o name

NormalizePackageName(name) == ReplaceFirst(name, "@elizaos-plugins/", <<"@elizaos/">>)

(***************************************************************************)
(* The search for environment variables.  A source file is the sequence of *)
(* the places in it that look like a read of a setting.                    *)
(***************************************************************************)
EnvNames == {"BAR", "FOO", "FOO_KEY"}

\* the UTF-16 code units of a name drawn
CodeUnits(name) ==
    CASE name = "BAR" -> <<66, 65, 82>>
      [] name = "FOO" -> <<70, 79, 79>>
      [] name = "FOO_KEY" -> <<70, 79, 79, 95, 75, 69, 89>>
      [] OTHER -> <<>>

Read(form, name) == [form |-> form, name |-> name]

envPatterns == <<"process.env.", "getSetting(", "getEnv(", "runtime.getSetting(">>

\* whether the pattern matches at a place of this form; /getSetting\(...\)/ also
\* matches inside runtime.getSetting(...), and process.env[...] matches nothing
PatternMatches(pattern, form) ==
    \/ pattern = form
    \/ pattern = "getSetting(" /\ form = "runtime.getSetting("

\* Set.prototype.add on a Set kept in insertion order
SetAdd(set, v) == IF v \in Range(set) THEN set ELSE Append(set, v)

RECURSIVE AddAll(_, _)
AddAll(set, names) ==
    IF names = <<>> THEN set ELSE AddAll(SetAdd(set, Head(names)), Tail(names))

\* the matches of one pattern in a file, in the order of the text
MatchesOf(content, pattern) ==
    LET hits == SelectSeq(content, LAMBDA r : PatternMatches(pattern, r.form))
    IN  [i \in 1..Len(hits) |-> hits[i].name]

\* the loop over envPatterns for one file
RECURSIVE ScanFile(_, _, _)
ScanFile(set, content, p) ==
    IF p > Len(envPatterns) THEN set
    ELSE ScanFile(AddAll(set, MatchesOf(content, envPatterns[p])), content, p + 1)

\* the comparison of Array.prototype.sort without a comparator: by code units
RECURSIVE CodeUnitsLess(_, _)
CodeUnitsLess(a, b) ==
    IF b = <<>> THEN FALSE
    ELSE IF a = <<>> THEN TRUE
    ELSE IF Head(a) # Head(b) THEN Head(a) < Head(b)
    ELSE CodeUnitsLess(Tail(a), Tail(b))

StringLess(a, b) == CodeUnitsLess(CodeUnits(a), CodeUnits(b))

RECURSIVE Insert(_, _)
Insert(sorted, v) ==
    IF sorted = <<>> THEN <<v>>
    ELSE IF StringLess(v, Head(sorted)) THEN <<v>> \o sorted
    ELSE <<Head(sorted)>> \o Insert(Tail(sorted), v)

\* fault: the names are returned in the order in which they were found
Sort_KeepsOrder(s) == s

\* Array.prototype.sort()
RECURSIVE Sort(_)
Sort(s) == IF s = <<>> THEN <<>> ELSE Insert(Sort(Tail(s)), Head(s))

File(name, content) == [name |-> name, isDir |-> FALSE, content |-> content, entries |-> {}]
Dir(name, entries)  == [name |-> name, isDir |-> TRUE, content |-> <<>>, entries |-> entries]

\* file.endsWith('.ts') || file.endsWith('.js'), on the names drawn
IsSourceFile(name) == name \in {"a.ts", "b.ts", "c.js", "d.js", "config.js"}

\* file.includes('node_modules') || file.includes('.git'), on the names drawn
IsSkippedDir(name) == name \in {"node_modules"}

\* the text of the source files drawn
FileContents ==
    { <<>>,
      <<Read("process.env.", "FOO"), Read("process.env.", "FOO"),
        Read("runtime.getSetting(", "BAR")>>,
      <<Read("getEnv(", "FOO_KEY"), Read("getSetting(", "BAR")>>,
      <<Read("process.env[", "BAR"), Read("process.env.", "FOO_KEY")>> }

SourceEntries ==
    { {File("a.ts", x), File("README.md", <<Read("process.env.", "BAR")>>),
       Dir("lib", {File("b.ts", y), File("c.js", <<Read("getEnv(", "FOO")>>)}),
       Dir("node_modules", {File("d.js", <<Read("process.env.", "FOO_KEY")>>)})} :
         x \in FileContents, y \in FileContents }

\* the checkouts: with a src directory, or with the sources at the top
SourceTrees ==
    SourceEntries
    \cup { {Dir("src", e), File("config.js", <<Read("process.env.", "FOO_KEY")>>)} :
              e \in SourceEntries }
    \cup { {File("a.ts", <<Read("process.env.", "FOO"), Read("process.env.", "FOO"),
                           Read("runtime.getSetting(", "BAR")>>)},
           {} }

PackageJsonNames ==
    { <<>>, <<"plugin-a">>,
      <<"@elizaos-plugins/", "plugin-a">>, <<"@elizaos/", "plugin-a">>,
      <<"@elizaos-plugins/", "@elizaos-plugins/", "plugin-a">>,
      <<"@elizaos/", "@elizaos-plugins/", "plugin-a">> }

MaxRefs == 2        \* references in an array literal of the index file

ImportSpecifiers ==
    { <<>>,
      << <<"transferAction", " ", "as", " ", "sendToken">> >>,
      << <<"transferAction", " ", " ", "as", " ", " ", "sendToken">> >>,
      << <<"transferAction", " ", "as", " ", "t">> >>,
      << <<" ", "transferAction", " ", "as", " ", "sendToken">>, <<" ", "swapAction", " ">> >> }

ComponentDirs ==
    { [exists |-> FALSE, exports |-> <<>>],
      [exists |-> TRUE, exports |-> <<"transferAction">>] }

IndexFiles ==
    { [actionImports |-> s, actions |-> a, services |-> <<>>, providerImports |-> <<>>,
       providers |-> <<>>] :
         s \in ImportSpecifiers, a \in SeqsUpTo(Identifiers, MaxRefs) }
    \cup
    { [actionImports |-> <<>>, actions |-> <<>>, services |-> <<"WalletService", "t">>,
       providerImports |-> << <<"walletProvider", " ", "as", " ", "wp">> >>,
       providers |-> <<"wp", "wp">>] }

\* src/actions, src/services and src/providers of a checkout: none of them, or
\* one of them with a file that exports a component
DirLayouts ==
    { [actionsDir |-> d, servicesDir |-> NoDir, providersDir |-> NoDir] : d \in ComponentDirs }
    \cup
    { [actionsDir |-> NoDir,
       servicesDir |-> [exists |-> TRUE, exports |-> <<"WalletService">>],
       providersDir |-> NoDir],
      [actionsDir |-> NoDir, servicesDir |-> NoDir,
       providersDir |-> [exists |-> TRUE, exports |-> <<"walletProvider">>]] }

\* the checkouts of the component extraction: the sources are fixed
ComponentCheckouts ==
    { [name |-> n, index |-> x, actionsDir |-> d.actionsDir,
       servicesDir |-> d.servicesDir, providersDir |-> d.providersDir,
       tree |-> {File("a.ts", <<Read("process.env.", "FOO")>>)}] :
         n \in PackageJsonNames, x \in IndexFiles, d \in DirLayouts }

\* the checkouts of the search for environment variables: the manifest and the
\* index file are fixed
SourceCheckouts ==
    { [name |-> <<"@elizaos-plugins/", "plugin-a">>,
       index |-> [actionImports |-> <<>>, actions |-> <<>>, services |-> <<>>,
                  providerImports |-> <<>>, providers |-> <<>>],
       actionsDir |-> NoDir, servicesDir |-> NoDir, providersDir |-> NoDir,
       tree |-> t] : t \in SourceTrees }

ExtractStart ==
    /\ xpc = "readPackageJson"
    /\ xInfo = NothingExtracted
    /\ envVarSet = <<>>
    /\ stack = <<>>

\* the directory searched: src when the checkout has one, the checkout otherwise
SearchRoot(tree) ==
    LET srcDirs == {e \in tree : e.isDir /\ e.name = "src"}
    IN  IF srcDirs # {} THEN (CHOOSE e \in srcDirs : TRUE).entries ELSE tree

\* the frames of searchForEnvVars that still have an entry to visit
RECURSIVE PopVisited(_)
PopVisited(frames) ==
    IF frames # <<>> /\ frames[Len(frames)] = {}
    THEN PopVisited(SubSeq(frames, 1, Len(frames) - 1))
    ELSE frames

\* fs.readJson(package.json): the name is normalized
ReadPackageJson ==
    /\ xpc = "readPackageJson"
    /\ \E readable \in BOOLEAN :
          IF readable
          THEN /\ xInfo' = [xInfo EXCEPT
                                  !.packageName = NormalizePackageName(checkout.name)]
               /\ xpc' = "components"
          ELSE /\ xInfo' = xInfo
               /\ xpc' = "threw"
    /\ UNCHANGED <<checkout, envVarSet, stack>>
    /\ UNCHANGED <<cfgVars, mainVars, ppVars, worldVars, histVars, effVars, tplVars, npmVars,
                   methodVars>>

\* extractPluginComponents, then the choice of the directory to search
extractPluginComponents ==
    /\ xpc = "components"
    /\ LET index == checkout.index
           fromIndex == ComponentsOfIndex(index.actionImports, index.actions)
       IN  /\ xInfo' = [xInfo EXCEPT
                 !.actions = ComponentsOrDirectory(fromIndex, checkout.actionsDir),
                 !.services = ComponentsOrDirectory(ServicesOfIndex(index.services),
                                                    checkout.servicesDir),
                 !.providers = ComponentsOrDirectory(
                                   ComponentsOfIndex(index.providerImports, index.providers),
                                   checkout.providersDir)]
           /\ stack' = PopVisited(<<SearchRoot(checkout.tree)>>)
    /\ xpc' = "search"
    /\ UNCHANGED <<checkout, envVarSet>>
    /\ UNCHANGED <<cfgVars, mainVars, ppVars, worldVars, histVars, effVars, tplVars, npmVars,
                   methodVars>>

\* searchForEnvVars, one entry of a directory: readdir decides which comes next
searchForEnvVars ==
    /\ xpc = "search" /\ stack # <<>>
    /\ \E file \in stack[Len(stack)] :
          LET rest == [stack EXCEPT ![Len(stack)] = @ \ {file}]
          IN  IF file.isDir /\ ~IsSkippedDir(file.name)
              THEN /\ stack' = PopVisited(Append(rest, file.entries))
                   /\ envVarSet' = envVarSet
              ELSE IF ~file.isDir /\ IsSourceFile(file.name)
              THEN /\ stack' = PopVisited(rest)
                   /\ envVarSet' = ScanFile(envVarSet, file.content, 1)
              ELSE /\ stack' = PopVisited(rest)
                   /\ envVarSet' = envVarSet
    /\ UNCHANGED <<checkout, xpc, xInfo>>
    /\ UNCHANGED <<cfgVars, mainVars, ppVars, worldVars, histVars, effVars, tplVars, npmVars,
                   methodVars>>

\* pluginInfo.envVars = Array.from(envVars).sort(), and the PluginInfo is returned
SortEnvVars ==
    /\ xpc = "search" /\ stack = <<>>
    /\ xInfo' = [xInfo EXCEPT !.envVars = Sort(envVarSet)]
    /\ xpc' = "done"
    /\ UNCHANGED <<checkout, envVarSet, stack>>
    /\ UNCHANGED <<cfgVars, mainVars, ppVars, worldVars, histVars, effVars, tplVars, npmVars,
                   methodVars>>

ExtractNext ==
    \/ ReadPackageJson \/ extractPluginComponents \/ searchForEnvVars \/ SortEnvVars

ComponentsInit ==
    /\ PipelineIdle /\ TemplateIdle /\ NpmIdle /\ MethodsIdle
    /\ checkout \in ComponentCheckouts
    /\ ExtractStart

SourcesInit ==
    /\ PipelineIdle /\ TemplateIdle /\ NpmIdle /\ MethodsIdle
    /\ checkout \in SourceCheckouts
    /\ ExtractStart

SpecComponents == ComponentsInit /\ [][ExtractNext]_vars

SpecSources == SourcesInit /\ [][ExtractNext]_vars

(***************************************************************************)
(* The methods of a service (extractDetailedComponentInfo, type            *)
(* 'services'): the loop over the matches of                               *)
(*   /(?:async\s+)?(\w+)\s*\([^)]*\)\s*(?::\s*[^{]+)?\s*{/g                *)
(* on the service's source.  The source is a sequence of units: a unit is  *)
(* a run of word characters that the sources drawn never split ("_",       *)
(* "name", "constructor", "async", "x"), a blank, or one of the            *)
(* punctuation characters; consecutive word units form one word.           *)
(***************************************************************************)
WordUnits == {"_", "name", "constructor", "async", "x"}

IsWordUnit(u) == u \in WordUnits

\* the first position from i on that holds no blank
RECURSIVE SkipSpaces(_, _)
SkipSpaces(s, i) ==
    IF i <= Len(s) /\ s[i] = " " THEN SkipSpaces(s, i + 1) ELSE i

\* the first position from i on that holds the unit u, 0 when there is none
RECURSIVE FirstOf(_, _, _)
FirstOf(s, u, i) ==
    IF i > Len(s) THEN 0
    ELSE IF s[i] = u THEN i
    ELSE FirstOf(s, u, i + 1)

\* the position after the word that starts at p
RECURSIVE WordEnd(_, _)
WordEnd(s, p) ==
    IF p <= Len(s) /\ IsWordUnit(s[p]) THEN WordEnd(s, p + 1) ELSE p

\* \s*\([^)]*\)\s*(?::\s*[^{]+)?\s*{ matched at e: the position of the brace
\* that ends the match, 0 when there is no match
SignatureEnd(s, e) ==
    LET open == SkipSpaces(s, e)
    IN  IF open > Len(s) \/ s[open] # "(" THEN 0
        ELSE LET close == FirstOf(s, ")", open + 1)
             IN  IF close = 0 THEN 0
                 ELSE LET b == SkipSpaces(s, close + 1)
                      IN  IF b > Len(s) THEN 0
                          ELSE IF s[b] = "{" THEN b
                          ELSE IF s[b] = ":"
                          THEN LET brace == FirstOf(s, "{", b + 1)
                               IN  IF brace > b + 1 THEN brace ELSE 0
                          ELSE 0

NoMatch == [found |-> FALSE, name |-> <<>>, end |-> 0]

\* (\w+) and the rest of the pattern matched at p: \w+ is greedy and gives
\* characters back until the rest matches
CaptureAt(s, p) ==
    LET ends == {e \in (p + 1)..WordEnd(s, p) : SignatureEnd(s, e) # 0}
    IN  IF ends = {} THEN NoMatch
        ELSE LET e == CHOOSE x \in ends : \A y \in ends : y <= x
             IN  [found |-> TRUE, name |-> SubSeq(s, p, e - 1), end |-> SignatureEnd(s, e)]

\* the pattern matched at i: with the optional 'async' and its blanks first,
\* without them otherwise
MatchAt(s, i) ==
    LET p == SkipSpaces(s, i + 1)
        withAsync == IF s[i] = "async" /\ p > i + 1 THEN CaptureAt(s, p) ELSE NoMatch
    IN  IF withAsync.found THEN withAsync ELSE CaptureAt(s, i)

\* methodRegex.exec(sourceCode): the leftmost match from lastIndex on
RECURSIVE Exec(_, _)
Exec(s, from) ==
    IF from > Len(s) THEN NoMatch
    ELSE IF MatchAt(s, from).found THEN MatchAt(s, from)
    ELSE Exec(s, from + 1)

\* sourceCode.match(fullMethodRegex): the text between the parentheses at the
\* first place where the method's name is followed by a parameter list
RECURSIVE Parameters(_, _, _)
Parameters(s, name, j) ==
    IF j + Len(name) - 1 > Len(s) THEN [found |-> FALSE, parameters |-> <<>>]
    ELSE LET open  == SkipSpaces(s, j + Len(name))
             close == FirstOf(s, ")", open + 1)
         IN  IF /\ SubSeq(s, j, j + Len(name) - 1) = name
                /\ open <= Len(s) /\ s[open] = "(" /\ close # 0
             THEN [found |-> TRUE, parameters |-> SubSeq(s, open + 1, close - 1)]
             ELSE Parameters(s, name, j + 1)

\* fault: only the constructor is left out
IsListedMethod_KeepsPrivate(methodName) == methodName # <<"constructor">>

\* methodName !== 'constructor' && !methodName.startsWith('_')
IsListedMethod(methodName) == methodName # <<"constructor">> /\ Head(methodName) # "_"

\* the declarations and statements the sources are made of
SourcePieces ==
    { <<"_", "name", "(", ")", " ", "{">>,
      <<"name", "(", "x", ")", " ", "{">>,
      <<"constructor", "(", "x", ")", " ", "{">>,
      <<"async", " ", "_", "name", "(", "x", ")", ":", " ", "x", " ", "{">>,
      <<"async", " ", "name", "(", ")", ":", " ", "x", "{">>,
      <<"name", "_", "(", ")", "{">>,
      <<"_", "constructor", " ", "(", ")", "{">>,
      <<"x", ".", "_", "name", "(", "x", ")", ";">>,
      <<"}", " ">> }

MaxDecls == 2       \* pieces in a service source

ServiceSources == {Flatten(pieces) : pieces \in SeqsUpTo(SourcePieces, MaxDecls)}

\* one turn of the while loop: a match, and the method pushed unless it is the
\* constructor or private
ExecMethodRegex ==
    /\ mpc = "scan"
    /\ LET methodMatch == Exec(sourceCode, lastIndex)
           methodName  == methodMatch.name
           fullMatch   == Parameters(sourceCode, methodName, 1)
       IN  /\ methodMatch.found
           /\ lastIndex' = methodMatch.end + 1
           /\ methods' = IF IsListedMethod(methodName) /\ fullMatch.found
                         THEN Append(methods, [name |-> methodName,
                                               parameters |-> fullMatch.parameters])
                         ELSE methods
    /\ UNCHANGED <<mpc, sourceCode>>
    /\ UNCHANGED <<cfgVars, mainVars, ppVars, worldVars, histVars, effVars, tplVars,
                   extractVars, npmVars>>

\* exec returns null: the loop ends, the methods found become info.methods
ReturnMethods ==
    /\ mpc = "scan"
    /\ ~Exec(sourceCode, lastIndex).found
    /\ mpc' = "done"
    /\ UNCHANGED <<sourceCode, lastIndex, methods>>
    /\ UNCHANGED <<cfgVars, mainVars, ppVars, worldVars, histVars, effVars, tplVars,
                   extractVars, npmVars>>

MethodsNext == ExecMethodRegex \/ ReturnMethods

MethodsInit ==
    /\ PipelineIdle /\ TemplateIdle /\ ExtractIdle /\ NpmIdle
    /\ mpc = "scan"
    /\ sourceCode \in ServiceSources
    /\ lastIndex = 1
    /\ methods = <<>>

SpecMethods == MethodsInit /\ [][MethodsNext]_vars

(***************************************************************************)
(* The download statistics (src/src/npmDownloadStats.ts): main of          *)
(* NpmDownloadStatsGenerator, one action per awaited stage and, inside     *)
(* the two fetch loops, one per package.  A package name is a string; the  *)
(* versions of a package are numbered in the order the registry lists      *)
(* them.                                                                   *)
(***************************************************************************)
searchTerms == <<"@elizaos", "@elizaos-plugins">>

NpmNames ==
    {"@elizaos/core", "@elizaos/plugin-a", "@elizaos-plugins/plugin-a", "elizaos-tools"}

\* name.startsWith(searchTerm + '/'), on the names drawn
StartsWithScope(name, searchTerm) ==
    \/ searchTerm = "@elizaos" /\ name \in {"@elizaos/core", "@elizaos/plugin-a"}
    \/ searchTerm = "@elizaos-plugins" /\ name = "@elizaos-plugins/plugin-a"

\* the place of a name drawn in the order of localeCompare ('-' sorts before
\* '/', as it does by code unit)
CollationKey(name) ==
    CASE name = "@elizaos-plugins/plugin-a" -> 1
      [] name = "@elizaos/core" -> 2
      [] name = "@elizaos/plugin-a" -> 3
      [] OTHER -> 4

localeCompare(a, b) == CollationKey(a) - CollationKey(b)

\* Object.keys(detailData.versions) of the packages drawn
RegistryVersions(name) ==
    CASE name = "@elizaos/core" -> [i \in 1..12 |-> i]
      [] name = "@elizaos/plugin-a" -> [i \in 1..3 |-> i]
      [] OTHER -> <<>>

MaxHits == 2        \* objects in one search response

SearchResponses == SeqsUpTo(NpmNames, MaxHits)

\* the packages one search pushes: the hits in the scope, with their versions
PackagesOfResponse(objects, searchTerm) ==
    LET hits == SelectSeq(objects, LAMBDA n : StartsWithScope(n, searchTerm))
    IN  [i \in 1..Len(hits) |-> [name |-> hits[i], versions |-> RegistryVersions(hits[i])]]

\* fault: the list is returned with its duplicates
uniquePackages_KeepsAll(pkgs) == pkgs

\* packages.filter((pkg, index, self) => index === self.findIndex(same name))
uniquePackages(pkgs) ==
    LET keep == {i \in 1..Len(pkgs) : \A j \in 1..(i - 1) : pkgs[j].name # pkgs[i].name}
        F[i \in 0..Len(pkgs)] ==
            IF i = 0 THEN <<>>
            ELSE IF i \in keep THEN Append(F[i - 1], pkgs[i]) ELSE F[i - 1]
    IN  F[Len(pkgs)]

RECURSIVE InsertPackage(_, _)
InsertPackage(sorted, pkg) ==
    IF sorted = <<>> THEN <<pkg>>
    ELSE IF localeCompare(pkg.name, Head(sorted).name) < 0 THEN <<pkg>> \o sorted
    ELSE <<Head(sorted)>> \o InsertPackage(Tail(sorted), pkg)

\* pkgs.sort((a, b) => a.name.localeCompare(b.name))
RECURSIVE SortPackages(_)
SortPackages(pkgs) ==
    IF pkgs = <<>> THEN <<>>
    ELSE InsertPackage(SortPackages(SubSeq(pkgs, 1, Len(pkgs) - 1)), pkgs[Len(pkgs)])

(***************************************************************************)
(* What the downloads API answers to one request: a count, a body without  *)
(* a count, 404, or another failure.                                       *)
(***************************************************************************)
Periods == <<"last-week", "last-month", "last-year">>

Answer(status, hasCount, count) ==
    [status |-> status, hasCount |-> hasCount, downloads |-> count]

CountsOf(period) ==
    CASE period = "last-week" -> {10}
      [] period = "last-month" -> {40}
      [] OTHER -> {400, 401}

AnswersOf(period) ==
    {Answer(200, TRUE, c) : c \in CountsOf(period)}
    \cup {Answer(200, FALSE, 0), Answer(404, FALSE, 0), Answer(500, FALSE, 0)}

\* fault: a 404 is rethrown like any other failure
getDownloadStats_Rethrows404(answer) ==
    IF answer.status = 200
    THEN Returned(IF answer.hasCount THEN answer.downloads ELSE 0)
    ELSE Thrown

\* { downloads: response.data.downloads || 0 }, { downloads: 0 } on a 404, and
\* any other failure rethrown
getDownloadStats(answer) ==
    IF answer.status = 200
    THEN Returned(IF answer.hasCount THEN answer.downloads ELSE 0)
    ELSE IF answer.status = 404 THEN Returned(0)
    ELSE Thrown

PackageDownloads(name, weekly, monthly, yearly) ==
    [packageName |-> name, totalDownloads |-> yearly, weeklyDownloads |-> weekly,
     monthlyDownloads |-> monthly, yearlyDownloads |-> yearly]

\* fault: every version gets a record
LastVersions_KeepsAll(versions) == versions

\* pkg.versions.slice(-10)
LastVersions(versions) ==
    SubSeq(versions, IF Len(versions) > 10 THEN Len(versions) - 9 ELSE 1, Len(versions))

\* fault: the quotient is truncated
Round_Floor(a, b) == a \div b

\* Math.round(a / b) for a >= 0 and b > 0: halves are rounded up
Round(a, b) == (2 * a + b) \div (2 * b)

RECURSIVE Sum(_, _)
Sum(records, field) ==
    IF records = <<>> THEN 0 ELSE Head(records)[field] + Sum(Tail(records), field)

\* packageDownloads.reduce((max, d) => d.yearlyDownloads > max.yearlyDownloads ? d : max)
RECURSIVE TopPackage(_, _)
TopPackage(max, records) ==
    IF records = <<>> THEN max
    ELSE TopPackage(IF Head(records).yearlyDownloads > max.yearlyDownloads
                    THEN Head(records) ELSE max, Tail(records))

\* the rows of the Summary sheet; 0 / 0 is NaN, n / 0 is Infinity
summaryData(pkgs, downloads) ==
    LET totalPackages  == Len(pkgs)
        totalDownloads == Sum(downloads, "yearlyDownloads")
    IN  [totalPackages |-> totalPackages,
         totalDownloads |-> totalDownloads,
         totalMonthlyDownloads |-> Sum(downloads, "monthlyDownloads"),
         totalWeeklyDownloads |-> Sum(downloads, "weeklyDownloads"),
         averageIsNumber |-> totalPackages > 0,
         average |-> IF totalPackages > 0 THEN Round(totalDownloads, totalPackages) ELSE 0,
         topPackage |-> IF Len(downloads) > 0
                        THEN TopPackage(Head(downloads), Tail(downloads)).packageName
                        ELSE "N/A"]

RECURSIVE InsertByYearly(_, _)
InsertByYearly(sorted, d) ==
    IF sorted = <<>> THEN <<d>>
    ELSE IF d.yearlyDownloads > Head(sorted).yearlyDownloads THEN <<d>> \o sorted
    ELSE <<Head(sorted)>> \o InsertByYearly(Tail(sorted), d)

\* packageDownloads.sort((a, b) => b.yearlyDownloads - a.yearlyDownloads), in place
RECURSIVE SortByYearly(_)
SortByYearly(downloads) ==
    IF downloads = <<>> THEN <<>>
    ELSE InsertByYearly(SortByYearly(SubSeq(downloads, 1, Len(downloads) - 1)),
                        downloads[Len(downloads)])

npmFrame ==
    UNCHANGED <<cfgVars, mainVars, ppVars, worldVars, histVars, effVars, tplVars,
                extractVars, methodVars>>

\* a request of Promise.all that has not settled yet
Pending == Answer(0, FALSE, 0)

\* fault: the counts already fetched are kept when another request fails
PromiseAllRecord_KeepsFetched(name, answers) ==
    LET count(k) == IF answers[k] # Pending /\ ~getDownloadStats(answers[k]).threw
                    THEN getDownloadStats(answers[k]).value ELSE 0
    IN  PackageDownloads(name, count(1), count(2), count(3))

\* the record pushed when Promise.all settles: it rejects with the first
\* request that throws, and the catch pushes zeros; fulfilled, its array holds
\* the results in the order of the promises, whatever order they settled in
PromiseAllRecord(name, answers) ==
    IF \E k \in 1..Len(answers) :
          answers[k] # Pending /\ getDownloadStats(answers[k]).threw
    THEN PackageDownloads(name, 0, 0, 0)
    ELSE PackageDownloads(name, getDownloadStats(answers[1]).value,
                          getDownloadStats(answers[2]).value,
                          getDownloadStats(answers[3]).value)

\* one round of the loop over searchTerms: the search, the detail request of
\* every hit in the scope right after it, and delay(200) at the end of the
\* round; a request that fails (the search, or the detail request of hit
\* failedAt) ends the run in main's catch
SearchRegistry ==
    /\ npc = "search" /\ term <= Len(searchTerms)
    /\ LET pushed == PackagesOfResponse(searchResponses[term], searchTerms[term])
       IN  \E answered \in BOOLEAN :
              IF answered
              THEN /\ packages' = packages \o pushed
                   /\ term' = term + 1
                   /\ npc' = npc
                   /\ undelayedCall' = (undelayedCall \/ ~delayed \/ Len(pushed) > 0)
                   /\ delayed' = TRUE
              ELSE /\ npc' = "exited"
                   /\ UNCHANGED <<packages, term>>
                   /\ \E failedAt \in 0..Len(pushed) :
                         undelayedCall' = (undelayedCall \/ ~delayed \/ failedAt > 0)
                   /\ delayed' = FALSE
    /\ UNCHANGED <<searchResponses, packageDownloads, versionDownloads, versionIdx,
                   lastAnswers, summary, inflight>>
    /\ npmFrame

\* fetchOrganizationPackages returns: duplicates removed, sorted by name
ReturnPackages ==
    /\ npc = "search" /\ term > Len(searchTerms)
    /\ packages' = SortPackages(uniquePackages(packages))
    /\ npc' = "fetched"
    /\ UNCHANGED <<searchResponses, term, packageDownloads, versionDownloads, versionIdx,
                   lastAnswers, summary, inflight, delayed, undelayedCall>>
    /\ npmFrame

\* fault: main goes on without packages
CheckPackages_GoesOn ==
    /\ npc = "fetched"
    /\ searchResponses' = <<>>
    /\ npc' = "downloads"
    /\ UNCHANGED <<term, packages, packageDownloads, versionDownloads, versionIdx,
                   lastAnswers, summary, inflight, delayed, undelayedCall>>
    /\ npmFrame

\* main: nothing to do without packages; the responses are no longer held
CheckPackages ==
    /\ npc = "fetched"
    /\ searchResponses' = <<>>
    /\ IF Len(packages) = 0 THEN npc' = "returned" ELSE npc' = "downloads"
    /\ UNCHANGED <<term, packages, packageDownloads, versionDownloads, versionIdx,
                   lastAnswers, summary, inflight, delayed, undelayedCall>>
    /\ npmFrame

\* fetchPackageDownloads, one package: the three calls of getDownloadStats
\* inside Promise.all issue their requests one after the other, without a
\* delay between them
fetchPackageDownloads ==
    /\ npc = "downloads" /\ Len(packageDownloads) < Len(packages) /\ inflight = {}
    /\ inflight' = 1..Len(Periods)
    /\ lastAnswers' = [k \in 1..Len(Periods) |-> Pending]
    /\ undelayedCall' = TRUE
    /\ delayed' = FALSE
    /\ UNCHANGED <<npc, searchResponses, term, packages, packageDownloads,
                   versionDownloads, versionIdx, summary>>
    /\ npmFrame

\* one of the pending requests is answered.  A request that throws rejects
\* Promise.all at once: the catch pushes the zero record, without a delay, and
\* the loop goes on (what the other requests answer later is dropped).  When
\* the last one is answered the record is pushed and delay(100) follows.
SettlePeriodRequest ==
    /\ npc = "downloads" /\ inflight # {}
    /\ LET pkg == packages[Len(packageDownloads) + 1]
       IN  \E k \in inflight :
              \E answer \in AnswersOf(Periods[k]) :
                 LET answers == [lastAnswers EXCEPT ![k] = answer]
                 IN  /\ lastAnswers' = answers
                     /\ IF getDownloadStats(answer).threw
                        THEN /\ packageDownloads' =
                                    Append(packageDownloads,
                                           PromiseAllRecord(pkg.name, answers))
                             /\ inflight' = {}
                             /\ delayed' = delayed
                        ELSE IF inflight = {k}
                        THEN /\ packageDownloads' =
                                    Append(packageDownloads,
                                           PromiseAllRecord(pkg.name, answers))
                             /\ inflight' = {}
                             /\ delayed' = TRUE
                        ELSE /\ packageDownloads' = packageDownloads
                             /\ inflight' = inflight \ {k}
                             /\ delayed' = delayed
    /\ UNCHANGED <<npc, searchResponses, term, packages, versionDownloads, versionIdx,
                   summary, undelayedCall>>
    /\ npmFrame

\* fetchPackageDownloads returns
ReturnPackageDownloads ==
    /\ npc = "downloads" /\ Len(packageDownloads) = Len(packages)
    /\ npc' = "versions"
    /\ lastAnswers' = NoAnswers
    /\ versionIdx' = 1
    /\ UNCHANGED <<searchResponses, term, packages, packageDownloads, versionDownloads,
                   summary, inflight, delayed, undelayedCall>>
    /\ npmFrame

VersionDownloads(name, version, downloads) ==
    [packageName |-> name, version |-> version, downloads |-> downloads]

\* fetchVersionDownloads, one package: the monthly count is spread over the last
\* ten versions and delay(100) follows; a request that threw leaves the package
\* without a record and without a delay
fetchVersionDownloads ==
    /\ npc = "versions" /\ versionIdx <= Len(packages)
    /\ LET pkg == packages[versionIdx]
       IN  \E monthly \in AnswersOf("last-month") :
              LET downloadData == getDownloadStats(monthly)
                  versions     == LastVersions(pkg.versions)
              IN  /\ lastAnswers' = <<monthly>>
                  /\ versionDownloads' =
                        IF downloadData.threw THEN versionDownloads
                        ELSE versionDownloads
                             \o [i \in 1..Len(versions) |->
                                   VersionDownloads(pkg.name, versions[i],
                                                    Round(downloadData.value, Len(versions)))]
                  /\ delayed' = ~downloadData.threw
    /\ undelayedCall' = (undelayedCall \/ ~delayed)
    /\ versionIdx' = versionIdx + 1
    /\ UNCHANGED <<npc, searchResponses, term, packages, packageDownloads, summary,
                   inflight>>
    /\ npmFrame

\* generateExcelReport: the sheets are built and the workbook is written; a
\* failed write ends the run in main's catch
generateExcelReport ==
    /\ npc = "versions" /\ versionIdx > Len(packages)
    /\ lastAnswers' = NoAnswers
    /\ \E wrote \in BOOLEAN :
          IF wrote
          THEN summary' = summaryData(packages, packageDownloads) /\ npc' = "reported"
          ELSE summary' = summary /\ npc' = "exited"
    /\ UNCHANGED <<searchResponses, term, packages, packageDownloads, versionDownloads,
                   versionIdx, inflight, delayed, undelayedCall>>
    /\ npmFrame

\* printSummary sorts packageDownloads in place for its top five; main returns
printSummary ==
    /\ npc = "reported"
    /\ packageDownloads' = SortByYearly(packageDownloads)
    /\ npc' = "done"
    /\ UNCHANGED <<searchResponses, term, packages, versionDownloads, versionIdx,
                   lastAnswers, summary, inflight, delayed, undelayedCall>>
    /\ npmFrame

NpmNext ==
    \/ SearchRegistry \/ ReturnPackages \/ CheckPackages
    \/ fetchPackageDownloads \/ SettlePeriodRequest \/ ReturnPackageDownloads
    \/ fetchVersionDownloads \/ generateExcelReport \/ printSummary

NpmInit ==
    /\ PipelineIdle /\ TemplateIdle /\ ExtractIdle /\ MethodsIdle
    /\ npc = "search" /\ term = 1
    /\ searchResponses \in SearchResponses \X SearchResponses
    /\ packages = <<>> /\ packageDownloads = <<>> /\ versionDownloads = <<>>
    /\ versionIdx = 1 /\ lastAnswers = NoAnswers /\ summary = NoSummary
    /\ inflight = {} /\ delayed = TRUE /\ undelayedCall = FALSE

SpecNpm == NpmInit /\ [][NpmNext]_vars

(***************************************************************************)
(* Properties.                                                             *)
(***************************************************************************)
LastRepoName == RepoNameOf(started[Len(started)])

HasReturned == pc = "loop" /\ ppc = "idle" /\ Len(reports) > 0

\* C1: every failure raised while a repository is processed is caught inside
\* processPlugin, and main starts every repository of the list exactly once, in
\* list order, one at a time.
C1_FailuresCaughtLoopContinues ==
    /\ ~propagated
    /\ Len(started) <= Len(pluginsToProcess)
    /\ started = SubSeq(pluginsToProcess, 1, Len(started))
    /\ (ppc # "idle" => Len(started) = idx /\ Len(reports) = idx - 1)
    /\ (ppc = "idle" /\ pc = "loop" => Len(started) = idx - 1 /\ Len(reports) = idx - 1)
    /\ (pc = "exited" /\ Len(started) > 0 => started = pluginsToProcess)

\* C2: once a repository has been started, the process never exits with a
\* non-zero code.
C2_NoNonZeroExitAfterSetup ==
    (pc = "exited" /\ Len(started) > 0) => exitCode = 0

\* C3: without a token in remote mode, or without the template file, main exits
\* with code 1 and no repository has been enumerated, cloned, read or written.
C3_SetupFailureIsFatalBeforeRepos ==
    ((~LOCAL_MODE /\ ~GITHUB_TOKEN) \/ ~templateExists) =>
        /\ pc \in {"start", "ensureDir", "checkTemplate", "exited"}
        /\ (pc = "exited" => exitCode = 1)
        /\ ~enumerated /\ repositories = <<>> /\ started = <<>>
        /\ tempDirs = {} /\ writtenPaths = {} /\ written = <<>>
        /\ remoteBranches = {} /\ pullRequests = {}

C3_Witness ==
    /\ pc = "exited" /\ exitCode = 1
    /\ ~templateExists /\ ~LOCAL_MODE /\ GITHUB_TOKEN /\ tempRoot

\* C4: in remote mode, when processPlugin has returned for a repository, the
\* directory temp/<repoName> does not exist.
C4_TempDirGoneOnReturn ==
    (~LOCAL_MODE /\ HasReturned) =>
        \A i \in 1..Len(reports) : RepoNameOf(started[i]) \notin tempDirs

\* C5: a persisted README contains every one of the headings '## Future
\* Enhancements', '## Credits', '## Security Best Practices' that the plugin's
\* existing README contains.
C5_PersistedReadmeKeepsHeadings ==
    (written # <<>> /\ ppc # "idle") =>
        \A h \in {"## Future Enhancements", "## Credits", "## Security Best Practices"} :
            h \in Range(existingReadme) => h \in Range(written)

C7_TemplateOutputContainsValues ==
    tDone /\ tInfo # NoInfo =>
        /\ tOut # <<>>
        /\ Contains(tOut, tInfo.packageName)
        /\ Contains(tOut, tInfo.description)
        /\ Contains(tOut, tInfo.repository)
        /\ \A i \in 1..Len(tInfo.envVars) : tInfo.envVars[i] \in Range(tOut)
        /\ \A i \in 1..Len(tInfo.actions) : tInfo.actions[i].name \in Range(tOut)
        /\ \A i \in 1..Len(tInfo.services) : tInfo.services[i].name \in Range(tOut)
        /\ \A i \in 1..Len(tInfo.providers) : tInfo.providers[i].name \in Range(tOut)

\* C8: with --local the README.md of the automation repository's own directory
\* is never written; the write that would hit it raises the CRITICAL error and
\* writes nothing.
C8_OwnReadmeNeverWritten ==
    LOCAL_MODE =>
        /\ PathJoin(cwd, <<"README.md">>) \notin writtenPaths
        /\ (lastError = "CRITICAL: Attempted to overwrite plugins-automation README!"
              => written = <<>> /\ ppc \in {"catch", "idle"})

C8_Witness ==
    /\ LOCAL_MODE /\ ppc = "catch"
    /\ lastError = "CRITICAL: Attempted to overwrite plugins-automation README!"
    /\ PathJoin(cwd, <<"..", repoName>>) = cwd

\* C9: in remote mode the steps of one repository run in the order clone,
\* extract, generate, create branch, write README.md, stage, commit, push, create
\* the pull request; a step runs only after every earlier one succeeded, and
\* every pull request is against base branch 'main'.
RemoteOrder ==
    <<"clone", "extract", "generate", "checkout", "write", "add", "commit", "push", "pr">>

C9_RemotePersistenceOrder ==
    ~LOCAL_MODE =>
        /\ Len(events) <= Len(RemoteOrder)
        /\ \A i \in 1..Len(events) :
              /\ events[i].step = RemoteOrder[i]
              /\ (i < Len(events) => events[i].ok)
        /\ (written # <<>> => Event("checkout", TRUE) \in Range(events))
        /\ \A p \in pullRequests : p.base = "main"

C9_Witness ==
    ~LOCAL_MODE /\ Len(events) = Len(RemoteOrder) /\ events[Len(events)].ok

\* C10: in remote mode a failed persistence step is followed by no later step and
\* by no compensation: a branch pushed before pull-request creation failed stays
\* on the remote, no pull request exists for the repository, and the repository
\* is reported as failed.
C10_NoRollbackAfterFailedStep ==
    (~LOCAL_MODE /\ Len(events) > 0 /\ ~events[Len(events)].ok /\ Len(started) > 0) =>
        LET failedAt == events[Len(events)].step
            name     == LastRepoName
        IN  /\ ppc \in {"catch", "idle"}
            /\ (ppc = "idle" => Len(reports) = Len(started)
                                /\ reports[Len(reports)] = "failed")
            /\ \A p \in pullRequests : p.repo # name
            /\ (failedAt = "pr" => name \in remoteBranches /\ written # <<>>)
            /\ (failedAt \in {"checkout", "write", "add", "commit", "push"}
                  => name \notin remoteBranches)
            /\ (failedAt \in {"checkout", "write"} => written = <<>>)

C10_Witness ==
    /\ ~LOCAL_MODE /\ HasReturned
    /\ Len(events) > 0 /\ events[Len(events)] = Event("pr", FALSE)
    /\ LastRepoName \in remoteBranches
    /\ reports[Len(reports)] = "failed"

IsPrefix(p, q) == Len(p) <= Len(q) /\ SubSeq(q, 1, Len(p)) = p

\* the checkouts a --local run works on
LocalCheckouts == {PathJoin(cwd, <<"..", n>>) : n \in getLocalPlugins}

GitAndGitHubCalls ==
    {"repos.listForOrg", "git clone", "git checkout", "git add", "git commit",
     "git push", "pulls.create"}

\* C11: with --local no git command is run and no GitHub API request is made,
\* no plugin checkout (nor a directory above one) is handed to fs.remove, and
\* every file written is the README.md of the checkout of a plugin that was
\* processed.
C11_LocalModeFrame ==
    LOCAL_MODE =>
        /\ calls \cap GitAndGitHubCalls = {}
        /\ remoteBranches = {} /\ pullRequests = {}
        /\ \A p \in removed : \A d \in LocalCheckouts : ~IsPrefix(p, d)
        /\ \A p \in writtenPaths :
              \E i \in 1..Len(started) :
                  p = PathJoin(cwd, <<"..", RepoNameOf(started[i]), "README.md">>)

\* C15: with --test at most one repository is processed: the one named by
\* --repo when it is given, otherwise the first of the enumerated list.
C15_TestModeProcessesAtMostOne ==
    TEST_MODE =>
        /\ Len(pluginsToProcess) <= 1
        /\ Len(started) <= 1
        /\ (Len(started) = 1 =>
               started[1] = IF TEST_REPO # <<>> THEN TEST_REPO ELSE repositories[1])

C15_Witness ==
    /\ TEST_MODE /\ TEST_REPO = <<>> /\ Len(repositories) >= 2
    /\ pc = "exited" /\ exitCode = 0 /\ started = <<repositories[1]>>

\* C16: in remote mode without --test the repositories discovered are exactly
\* the repositories of the organization whose name starts with 'plugin-'.
C16_DiscoveryReturnsEveryPluginRepo ==
    (~LOCAL_MODE /\ ~TEST_MODE /\ pc \in {"select", "loop"}) =>
        Range(repositories) = {<<n>> : n \in {m \in Range(orgRepos) : StartsWithPluginDash(m)}}

RECURSIVE DiscoveredNames(_)
DiscoveredNames(entries) ==
    UNION { IF e.isDir
            THEN (IF IsSkippedDir(e.name) THEN {} ELSE DiscoveredNames(e.entries))
            ELSE IF IsSourceFile(e.name)
            THEN {r.name : r \in {q \in Range(e.content) :
                                    \E k \in 1..Len(envPatterns) :
                                        PatternMatches(envPatterns[k], q.form)}}
            ELSE {} : e \in entries }

ExampleTree ==
    {File("a.ts", <<Read("process.env.", "FOO"), Read("process.env.", "FOO"),
                    Read("runtime.getSetting(", "BAR")>>)}

\* C12: the environment-variable list of the extracted PluginInfo holds every
\* discovered name exactly once, in ascending order of code units, whatever the
\* order in which the directories were read; process.env.FOO twice and
\* runtime.getSetting("BAR") once give <<"BAR", "FOO">>.
C12_EnvVarsSortedUnique ==
    xpc = "done" =>
        LET r == xInfo.envVars
        IN  /\ NoDup(r)
            /\ Range(r) = DiscoveredNames(SearchRoot(checkout.tree))
            /\ \A i, j \in 1..Len(r) : i < j => StringLess(r[i], r[j])
            /\ (checkout.tree = ExampleTree => r = <<"BAR", "FOO">>)

C12_Witness ==
    /\ xpc = "done" /\ checkout.tree = ExampleTree
    /\ envVarSet = <<"FOO", "BAR">> /\ xInfo.envVars = <<"BAR", "FOO">>

\* the identifiers, "as" included, of an import specifier
WordsOf(specifier) == SelectSeq(specifier, LAMBDA t : ~IsWhitespace(t))

\* C13: when the index file imports { X as Y } from './actions' and lists Y in
\* its actions array, an extracted action is named X and none is named Y.
C13_AliasResolvedToOriginal ==
    xpc \in {"search", "done"} =>
        \A k \in 1..Len(checkout.index.actionImports) :
            LET w == WordsOf(checkout.index.actionImports[k])
                names == {xInfo.actions[i].name : i \in 1..Len(xInfo.actions)}
            IN  (Len(w) = 3 /\ w[2] = "as" /\ w[1] # w[3]
                 /\ w[3] \in Range(checkout.index.actions))
                => (<<w[1]>> \in names /\ <<w[3]>> \notin names)

ScopeCount(name) == Cardinality({i \in 1..Len(name) : name[i] = "@elizaos-plugins/"})

\* C14 as stated: the normalization applied to the normalized name returns it
\* unchanged, and a name that starts with '@elizaos/' is returned unchanged.
C14_NormalizationIdempotent ==
    xpc \in {"components", "search", "done"} =>
        /\ NormalizePackageName(xInfo.packageName) = xInfo.packageName
        /\ (checkout.name # <<>> /\ checkout.name[1] = "@elizaos/"
              => xInfo.packageName = checkout.name)

\* C14: for a name in which '@elizaos-plugins/' occurs at most once, the
\* normalization applied twice gives what it gives applied once; a name that
\* starts with '@elizaos/' and holds no '@elizaos-plugins/' is returned unchanged.
C14_IdempotentOnSingleScope ==
    xpc \in {"components", "search", "done"} =>
        /\ (ScopeCount(checkout.name) <= 1
              => NormalizePackageName(xInfo.packageName) = xInfo.packageName)
        /\ (checkout.name # <<>> /\ checkout.name[1] = "@elizaos/"
            /\ ScopeCount(checkout.name) = 0
              => xInfo.packageName = checkout.name)

C14_Witness ==
    /\ xpc = "done"
    /\ checkout.name = <<"@elizaos-plugins/", "plugin-a">>
    /\ xInfo.packageName = <<"@elizaos/", "plugin-a">>

\* C17: the list fetchOrganizationPackages returns holds no name twice, holds
\* only names in the scope '@elizaos/' or '@elizaos-plugins/', and is sorted by
\* name; it holds every hit of a search that is in the scope searched.
C17_PackagesUniqueScopedSorted ==
    npc \in {"fetched", "downloads", "versions", "reported"} =>
        /\ \A i, j \in 1..Len(packages) : i # j => packages[i].name # packages[j].name
        /\ \A i \in 1..Len(packages) :
              \E k \in 1..Len(searchTerms) : StartsWithScope(packages[i].name, searchTerms[k])
        /\ \A i, j \in 1..Len(packages) :
              i < j => localeCompare(packages[i].name, packages[j].name) <= 0
        /\ (npc = "fetched" =>
              {packages[i].name : i \in 1..Len(packages)}
                = UNION {{n \in Range(searchResponses[k]) : StartsWithScope(n, searchTerms[k])} :
                           k \in 1..Len(searchTerms)})

C17_Witness ==
    /\ npc = "fetched"
    /\ searchResponses = << <<"@elizaos/plugin-a", "@elizaos/plugin-a">>,
                            <<"@elizaos-plugins/plugin-a", "elizaos-tools">> >>
    /\ Len(packages) = 2
    /\ packages[1].name = "@elizaos-plugins/plugin-a"
    /\ packages[2].name = "@elizaos/plugin-a"

\* the registry has no data for the period: HTTP 404, or a body without a count
NoData(answer) == answer.status = 404 \/ (answer.status = 200 /\ ~answer.hasCount)

CountOrZero(answer) == IF NoData(answer) THEN 0 ELSE answer.downloads

\* C18: fetchPackageDownloads yields one record per package, in the order of the
\* packages, and never ends the run; when each period either has a count or has
\* no data, a period without data is recorded as 0 and the others keep their
\* counts.
C18_OneRecordPerPackage ==
    /\ npc \in {"downloads", "versions", "reported"} =>
          /\ Len(packageDownloads) <= Len(packages)
          /\ \A i \in 1..Len(packageDownloads) :
                packageDownloads[i].packageName = packages[i].name
          /\ (npc # "downloads" => Len(packageDownloads) = Len(packages))
    /\ npc = "exited" => (packageDownloads = <<>> \/ Len(packageDownloads) = Len(packages))
    /\ (npc = "downloads" /\ Len(lastAnswers) = 3
        /\ \A k \in 1..3 : lastAnswers[k].status \in {200, 404}) =>
          LET d == packageDownloads[Len(packageDownloads)]
          IN  /\ d.weeklyDownloads = CountOrZero(lastAnswers[1])
              /\ d.monthlyDownloads = CountOrZero(lastAnswers[2])
              /\ d.yearlyDownloads = CountOrZero(lastAnswers[3])

C18_Witness ==
    /\ npc = "downloads" /\ Len(packageDownloads) = 2
    /\ lastAnswers = <<Answer(404, FALSE, 0), Answer(200, TRUE, 40), Answer(200, FALSE, 0)>>
    /\ packageDownloads[2].weeklyDownloads = 0
    /\ packageDownloads[2].monthlyDownloads = 40
    /\ packageDownloads[2].yearlyDownloads = 0

Abs(n) == IF n < 0 THEN -n ELSE n

\* C19: the average of the Summary sheet is an integer nearest to the sum of the
\* yearly counts divided by the number of packages; it is 400 for a single
\* package with weekly 10, monthly 40 and yearly 400.
C19_AverageIsRoundedMean ==
    npc \in {"reported", "done"} =>
        LET n == Len(packages)
            total == Sum(packageDownloads, "yearlyDownloads")
        IN  /\ summary.averageIsNumber
            /\ 2 * Abs(summary.average * n - total) <= n
            /\ (n = 1 /\ packageDownloads[1].weeklyDownloads = 10
                /\ packageDownloads[1].monthlyDownloads = 40
                /\ packageDownloads[1].yearlyDownloads = 400
                  => summary.average = 400)

C19_Witness ==
    /\ npc = "reported" /\ Len(packages) = 1
    /\ packageDownloads[1].weeklyDownloads = 10
    /\ packageDownloads[1].monthlyDownloads = 40
    /\ packageDownloads[1].yearlyDownloads = 400
    /\ summary.average = 400

\* the version records of the package that fetchVersionDownloads handled last
LastVersionRecords ==
    SelectSeq(versionDownloads,
              LAMBDA r : r.packageName = packages[versionIdx - 1].name)

Min(a, b) == IF a < b THEN a ELSE b

\* C24: a package with n = min(10, number of versions) > 0 whose monthly count M
\* was fetched gets n version records, one for each of its last n versions in
\* their order, each with the integer nearest to M / n; a package without
\* versions or whose monthly request failed gets none, and the run goes on to
\* the next package.
C24_VersionRecordsPerPackage ==
    /\ (npc = "versions" /\ versionIdx > 1 /\ Len(lastAnswers) = 1) =>
          LET pkg  == packages[versionIdx - 1]
              all  == Len(pkg.versions)
              n    == Min(10, all)
              recs == LastVersionRecords
              M    == CountOrZero(lastAnswers[1])
          IN  IF lastAnswers[1].status \in {200, 404}
              THEN /\ Len(recs) = n
                   /\ \A i \in 1..n :
                         /\ recs[i].version = pkg.versions[all - n + i]
                         /\ 2 * Abs(recs[i].downloads * n - M) <= n
                         /\ 2 * (recs[i].downloads * n - M) # -n
              ELSE recs = <<>>
    /\ npc = "exited" => (versionIdx = 1 \/ versionIdx > Len(packages))

C24_Witness ==
    /\ npc = "versions" /\ versionIdx > 1
    /\ packages[versionIdx - 1].name = "@elizaos/core"
    /\ lastAnswers = <<Answer(200, TRUE, 40)>>
    /\ Len(LastVersionRecords) = 10
    /\ LastVersionRecords[1].version = 3
    /\ LastVersionRecords[10].downloads = 4

\* C29: the report and the printed summary are reached only with a package
\* list that is not empty, so the average of the Summary sheet is never a
\* division by zero; without packages main returns before any download request.
C29_AverageNeverDividesByZero ==
    /\ npc \in {"downloads", "versions", "reported"} => Len(packages) > 0
    /\ npc = "reported" => summary.totalPackages > 0 /\ summary.averageIsNumber
    /\ npc = "returned" =>
          /\ packages = <<>> /\ packageDownloads = <<>> /\ versionDownloads = <<>>
          /\ summary = NoSummary

C29_Witness ==
    /\ npc = "returned" /\ packages = <<>> /\ summary = NoSummary

\* the request of a period failed with an error other than 404
Failed(answer) == answer # Pending /\ answer.status \notin {200, 404}

\* C30: the three period requests of a package are pending together and are
\* answered in any order; when the record of the package is pushed, either no
\* request failed, all three were answered, and each field holds the count
\* answered for its own period (0 without data), or a request failed with an
\* error other than 404 and the record is 0 in all three periods, whatever was
\* fetched before; the run goes on with the next package.
C30_PeriodsKeepTheirOwnCount ==
    /\ (npc = "downloads" /\ inflight = {} /\ Len(lastAnswers) = 3) =>
          LET d == packageDownloads[Len(packageDownloads)]
          IN  /\ d.packageName = packages[Len(packageDownloads)].name
              /\ IF \E k \in 1..3 : Failed(lastAnswers[k])
                 THEN /\ d.weeklyDownloads = 0
                      /\ d.monthlyDownloads = 0
                      /\ d.yearlyDownloads = 0
                 ELSE /\ \A k \in 1..3 : lastAnswers[k] \in AnswersOf(Periods[k])
                      /\ d.weeklyDownloads = CountOrZero(lastAnswers[1])
                      /\ d.monthlyDownloads = CountOrZero(lastAnswers[2])
                      /\ d.yearlyDownloads = CountOrZero(lastAnswers[3])
    /\ (npc = "downloads" /\ inflight # {}) =>
          /\ Len(packageDownloads) < Len(packages)
          /\ \A k \in 1..3 : (k \in inflight) = (lastAnswers[k] = Pending)
          /\ \A k \in 1..3 : ~Failed(lastAnswers[k])
    /\ inflight # {} => npc = "downloads"

\* the yearly request was answered first, then the monthly one, and the weekly
\* request failed last: the counts fetched are discarded
C30_Witness ==
    /\ npc = "downloads" /\ inflight = {}
    /\ Len(packageDownloads) = 1 /\ Len(packages) = 2
    /\ lastAnswers = <<Answer(500, FALSE, 0), Answer(200, TRUE, 40), Answer(200, TRUE, 400)>>
    /\ packageDownloads[1].monthlyDownloads = 0
    /\ packageDownloads[1].yearlyDownloads = 0

\* C25: in a run of the download statistics no remote call is issued unless a
\* delay has elapsed since the remote call before it.
C25_DelayAfterEveryRemoteCall == ~undelayedCall

\* C26: with --local, the README.md that createPullRequest has written for the
\* plugin being processed is the one of the directory getPluginPath returned,
\* which is where the plugin info and the existing README were read.
C26_LocalWriteInResolvedDirectory ==
    (LOCAL_MODE /\ ppc = "cleanup") =>
        PathJoin(repoPath, <<"README.md">>) \in writtenPaths

\* generateReadme has returned for the plugin being processed
Generated == ppc # "idle" /\ Len(events) >= 3 /\ events[3].step = "generate"

\* C28: no README that is empty after trimming is persisted; when the README
\* generated for a repository is empty after trimming, processPlugin goes to its
\* catch block without a write, a branch or a pull request for the repository,
\* and the repository is reported as failed.
C28_EmptyReadmeNeverPersisted ==
    /\ written # <<>> => Trim(written) # <<>>
    /\ (Generated /\ events[3].ok) => Trim(readme) # <<>>
    /\ (Generated /\ Trim(readme) = <<>> /\ lastError # "generation failed") =>
          /\ ppc = "catch" /\ events[3] = Event("generate", FALSE) /\ Len(events) = 3
          /\ lastError = "Generated README is empty"
          /\ written = <<>>
          /\ repoName \notin remoteBranches
          /\ \A pr \in pullRequests : pr.repo # repoName
    /\ (ppc = "idle" /\ lastError = "Generated README is empty") =>
          /\ reports[Len(reports)] = "failed"
          /\ written = <<>>
          /\ RepoNameOf(started[Len(started)]) \notin remoteBranches
          /\ \A pr \in pullRequests : pr.repo # RepoNameOf(started[Len(started)])

C28_Witness ==
    /\ ~LOCAL_MODE /\ templateFile = BlankTemplate
    /\ ppc = "idle" /\ lastError = "Generated README is empty"
    /\ reports = <<"failed">> /\ written = <<>>
    /\ remoteBranches = {} /\ pullRequests = {}

\* the completion returned for the plugin being processed
CompletionReturned == ppc # "idle" /\ aiCall = "returned"

NamesOf(components) == [i \in 1..Len(components) |-> components[i].name]

\* the array literal of a category in the index file, "" when no pattern matches
ArrayOf(category) ==
    CASE category = "actions" -> checkout.index.actions
      [] category = "services" -> checkout.index.services
      [] OTHER -> checkout.index.providers

DirOf(category) ==
    CASE category = "actions" -> checkout.actionsDir
      [] category = "services" -> checkout.servicesDir
      [] OTHER -> checkout.providersDir

Categories == {"actions", "services", "providers"}

C27_NoDuplicateComponents ==
    xpc \in {"search", "done"} =>
        /\ NoDup(NamesOf(xInfo.actions))
        /\ NoDup(NamesOf(xInfo.providers))

\* the word of the source that starts at j is the name, and a parameter list and
\* an opening brace follow it
DeclaredAt(name, j) ==
    /\ j + Len(name) - 1 <= Len(sourceCode)
    /\ SubSeq(sourceCode, j, j + Len(name) - 1) = name
    /\ (j = 1 \/ ~IsWordUnit(sourceCode[j - 1]))
    /\ WordEnd(sourceCode, j) = j + Len(name)
    /\ SignatureEnd(sourceCode, j + Len(name)) # 0

\* C23: no method listed for a service is named 'constructor' or has a name
\* that starts with '_', and every name listed is a whole word of the source
\* that a parameter list and a brace follow: a method declared as _name(...) {
\* is not listed as name.
C23_NoPrivateMethodListed ==
    \A i \in 1..Len(methods) :
        /\ methods[i].name # <<"constructor">>
        /\ Head(methods[i].name) # "_"
        /\ \E j \in 1..Len(sourceCode) : DeclaredAt(methods[i].name, j)

C23_Witness ==
    /\ mpc = "done"
    /\ sourceCode = <<"_", "name", "(", ")", " ", "{">>
                    \o <<"constructor", "(", "x", ")", " ", "{">>
    /\ lastIndex = Len(sourceCode) + 1
    /\ methods = <<>>

====
